---- MODULE Spec2Model ----
(***************************************************************************)
(* Authentication / session subsystem of moviestack: the auth routes       *)
(* (register, login, refresh, logout, me) over the User and RefreshToken   *)
(* tables, the token codec of src/lib/auth.ts, the AuthProvider of the     *)
(* browser tab (src/contexts/AuthContext.tsx), and a wall clock.           *)
(*                                                                         *)
(* Every route handler is a process that advances one `await` at a time:   *)
(* each database call is one atomic step, and the synchronous code that    *)
(* follows it up to the next database call belongs to the same step.       *)
(***************************************************************************)
EXTENDS Integers, Sequences, FiniteSets, TLC

\* ------------------------------------------------------------------ bounds
\* Requests per behaviour (each slot is one HTTP request, numbered by arrival).
MaxReq == 4
\* Clock advances per behaviour.
MaxTicks == 2
\* Requests the browser tab makes per behaviour.
MaxFetch == 5
\* Clock advances per behaviour of the browser tab.
MaxWaits == 3
\* Seconds a quick and a slow network exchange take.
FAST == 1
SLOW == 60
\* Requests of one client's journey (register, me, refresh, login, logout).
MaxJourney == 5
\* Calls of the token codec per behaviour.
MaxCalls == 5
\* Longest password tried on validatePassword.
MaxPwLen == 9

\* --------------------------------------------------------------- constants
\* setExpirationTime("15m"), in seconds
ACCESS_TTL == 900
\* setExpirationTime("7d"), in seconds
REFRESH_TTL == 604800
\* setDate(getDate() + 7), in seconds
RECORD_TTL == 604800
\* maxAge: 60 * 60 * 24 * 7
COOKIE_MAX_AGE == 604800

\* setInterval(..., 14 * 60 * 1000), in seconds
REFRESH_INTERVAL == 840

JWT_SECRET == "your-secret-key-change-in-production"

\* Faulty variant: refresh tokens are signed with the access secret.
SharedSecret == "your-secret-key-change-in-production"

JWT_REFRESH_SECRET == "your-refresh-secret-key-change-in-production"

\* ----------------------------------------------------------------- strings
\* A cookie / token string.  form: "absent" (no cookie), "empty" (""),
\* "garbage" (not a JWT), "jwt" (a compact JWS: the claims and the key whose
\* HMAC signs them).  An access token carries email and no tokenId; a refresh
\* token carries tokenId and no email.
Str(form, key, userId, email, tokenId, iat, exp) ==
  [form |-> form, key |-> key, userId |-> userId, email |-> email,
   tokenId |-> tokenId, iat |-> iat, exp |-> exp]

ABSENT == Str("absent", "", 0, <<>>, 0, 0, 0)
EMPTY == Str("empty", "", 0, <<>>, 0, 0, 0)
GARBAGE == Str("garbage", "", 0, <<>>, 0, 0, 0)

\* `!refreshToken`: undefined and "" are both falsy.
Falsy(s) == s.form \in {"absent", "empty"}

UPPER == {"A", "B", "C", "D", "E", "F", "G", "H", "I", "J", "K", "L", "M",
          "N", "O", "P", "Q", "R", "S", "T", "U", "V", "W", "X", "Y", "Z"}
LOWER == {"a", "b", "c", "d", "e", "f", "g", "h", "i", "j", "k", "l", "m",
          "n", "o", "p", "q", "r", "s", "t", "u", "v", "w", "x", "y", "z"}
DIGIT == {"0", "1", "2", "3", "4", "5", "6", "7", "8", "9"}

LowerOf(c) ==
  CASE c = "A" -> "a" [] c = "B" -> "b" [] c = "C" -> "c" [] c = "D" -> "d"
    [] c = "E" -> "e" [] c = "F" -> "f" [] c = "G" -> "g" [] c = "H" -> "h"
    [] c = "I" -> "i" [] c = "J" -> "j" [] c = "K" -> "k" [] c = "L" -> "l"
    [] c = "M" -> "m" [] c = "N" -> "n" [] c = "O" -> "o" [] c = "P" -> "p"
    [] c = "Q" -> "q" [] c = "R" -> "r" [] c = "S" -> "s" [] c = "T" -> "t"
    [] c = "U" -> "u" [] c = "V" -> "v" [] c = "W" -> "w" [] c = "X" -> "x"
    [] c = "Y" -> "y" [] c = "Z" -> "z" [] OTHER -> c

\* Faulty variant: the email is used as typed.
KeepCase(s) == s

\* String.prototype.toLowerCase, character by character.
toLowerCase(s) == [i \in 1..Len(s) |-> LowerOf(s[i])]

\* /^[^\s@]+@[^\s@]+\.[^\s@]+$/
validateEmail(email) ==
  \E i \in 1..Len(email) : \E j \in 1..Len(email) :
    /\ 1 < i /\ i + 1 < j /\ j < Len(email)
    /\ email[i] = "@"
    /\ email[j] = "."
    /\ \A k \in 1..Len(email) : k # i => email[k] \notin {"@", " "}

\* Faulty variant: the character classes are checked before the length.
validatePasswordClassFirst(password) ==
  IF ~(\E i \in 1..Len(password) :
         \/ password[i] \in UPPER
         \/ password[i] \notin (LOWER \cup UPPER \cup DIGIT))
    THEN [valid |-> FALSE,
          error |-> "Password must contain at least one uppercase letter or special character"]
    ELSE IF Len(password) < 8
      THEN [valid |-> FALSE,
            error |-> "Password must be at least 8 characters long"]
      ELSE [valid |-> TRUE, error |-> ""]

\* length >= 8, then /[A-Z]/ or /[^a-zA-Z0-9]/
validatePassword(password) ==
  IF Len(password) < 8
    THEN [valid |-> FALSE,
          error |-> "Password must be at least 8 characters long"]
    ELSE IF ~(\E i \in 1..Len(password) :
                \/ password[i] \in UPPER
                \/ password[i] \notin (LOWER \cup UPPER \cup DIGIT))
      THEN [valid |-> FALSE,
            error |-> "Password must contain at least one uppercase letter or special character"]
      ELSE [valid |-> TRUE, error |-> ""]

\* bcrypt.hash(password, 12): one-way; the digest is usable only by compare.
hashPassword(password) == <<"$2a$12$">> \o password

\* bcrypt.compare(password, hash)
verifyPassword(password, hash) == hash = hashPassword(password)

\* --------------------------------------------------------------- the state
VARIABLES
  users,          \* table User: set of [id, email, passwordHash]
  refreshTokens,  \* table RefreshToken: set of [id, token, userId, expiresAt]
  nextId,         \* ids handed out so far (cuid(): never repeats)
  now,            \* wall clock, seconds
  ticks,          \* clock advances so far
  req,            \* the requests: slot -> handler state and response
  client          \* the browser tab: AuthProvider state and the cookie jar

vars == <<users, refreshTokens, nextId, now, ticks, req, client>>

Slots == 1..MaxReq

NoUser == [id |-> 0, email |-> <<>>, passwordHash |-> <<>>]
NoRow == [id |-> 0, token |-> EMPTY, userId |-> 0, expiresAt |-> 0]

\* NextResponse: status, body.error, Set-Cookie refreshToken (value, Max-Age),
\* body.accessToken, body.user.
NoResp ==
  [status |-> 0, error |-> "", setCookie |-> FALSE, cookie |-> ABSENT,
   maxAge |-> 0, accessToken |-> ABSENT, user |-> NoUser]

Json(status, error) == [NoResp EXCEPT !.status = status, !.error = error]

\* A slot that has not been used yet.  Beside the handler's locals a slot
\* records what happened to the request: the rejection that reached the
\* catch block (threw) and the call it came from (threwAt), the arrival time
\* (at), the time of the expiresAt comparison (checkedAt), the requests in
\* progress on arrival (with) and the tables on arrival (before).
Idle ==
  [kind |-> "none", pc |-> "idle", cookie |-> ABSENT, email |-> <<>>,
   password |-> <<>>, passwordValidation |-> [valid |-> FALSE, error |-> ""],
   payload |-> ABSENT, refreshTokenRecord |-> NoRow,
   user |-> NoUser, expiry |-> 0, newRecord |-> NoRow,
   accessToken |-> ABSENT, refreshToken |-> ABSENT, resp |-> NoResp,
   threw |-> "", threwAt |-> "", at |-> 0, checkedAt |-> 0, with |-> {},
   before |-> [users |-> {}, refreshTokens |-> {}]]

\* No interval is set.
NoInterval == [armed |-> FALSE, since |-> 0]

\* AuthProvider before its first effect has run: useState(null),
\* useState(null), useState(true); no interval; an empty cookie jar; no
\* response delivered and no fetch rejected yet.  `first` is the request
\* that initAuth's fetch will be, `view` the kind of page that is shown
\* ("protected" pages call useRequireAuth), `redirected` whether
\* useRequireAuth has assigned window.location.href, `thrown` the errors
\* that login and register have thrown to their callers.
Unmounted ==
  [user |-> NoUser, accessToken |-> ABSENT, isLoading |-> TRUE,
   interval |-> NoInterval, cookie |-> ABSENT, received |-> {},
   failed |-> {}, first |-> 1, view |-> "public", redirected |-> FALSE,
   thrown |-> {}]

Init ==
  /\ client = Unmounted
  /\ users = {}
  /\ refreshTokens = {}
  /\ nextId = 0
  /\ now = 0
  /\ ticks = 0
  /\ req = [r \in Slots |-> Idle]

\* ------------------------------------------------------------- token codec
\* Faulty variant: the access token is given the refresh token's lifetime.
generateAccessTokenSevenDays(userId, email, t) ==
  Str("jwt", JWT_SECRET, userId, email, 0, t, t + REFRESH_TTL)

\* Faulty variant: the access token lives as long as the client's interval.
generateAccessTokenFourteenMinutes(userId, email, t) ==
  Str("jwt", JWT_SECRET, userId, email, 0, t, t + REFRESH_INTERVAL)

\* new SignJWT({...payload}).setIssuedAt().setExpirationTime("15m").sign(JWT_SECRET)
generateAccessToken(userId, email, t) ==
  Str("jwt", JWT_SECRET, userId, email, 0, t, t + ACCESS_TTL)

\* Faulty variant: the refresh token is signed before the row exists, so it
\* carries no row id.
generateRefreshTokenWithoutId(userId, tokenId, t) ==
  Str("jwt", JWT_REFRESH_SECRET, userId, <<>>, 0, t, t + REFRESH_TTL)

\* new SignJWT({...payload}).setIssuedAt().setExpirationTime("7d").sign(JWT_REFRESH_SECRET)
generateRefreshToken(userId, tokenId, t) ==
  Str("jwt", JWT_REFRESH_SECRET, userId, <<>>, tokenId, t, t + REFRESH_TTL)

\* jwtVerify(token, secret): the signature is under `secret`, and exp is in
\* the future (jose rejects when exp <= now).  TRUE when it returns.
jwtVerify(token, secret, t) ==
  /\ token.form = "jwt"
  /\ token.key = secret
  /\ t < token.exp

\* Faulty variant: the signature is checked and the expiry is not.
verifyAccessTokenNoExpiry(token, t) ==
  IF token.form = "jwt" /\ token.key = JWT_SECRET THEN token ELSE ABSENT

\* verifyAccessToken: the payload, or null (ABSENT)
verifyAccessToken(token, t) ==
  IF jwtVerify(token, JWT_SECRET, t) THEN token ELSE ABSENT

\* verifyRefreshToken: the payload, or null (ABSENT)
verifyRefreshToken(token, t) ==
  IF jwtVerify(token, JWT_REFRESH_SECRET, t) THEN token ELSE ABSENT

\* ------------------------------------------------------------ the database
\* prisma.refreshToken.findUnique({ where: { id } }): the row or null (NoRow)
FindToken(id) ==
  IF \E row \in refreshTokens : row.id = id
    THEN CHOOSE row \in refreshTokens : row.id = id
    ELSE NoRow

\* Faulty variant: the lookup by email finds nobody.
FindUserByEmailNobody(email) == NoUser

\* prisma.user.findUnique({ where: { email } })
FindUserByEmail(email) ==
  IF \E u \in users : u.email = email
    THEN CHOOSE u \in users : u.email = email
    ELSE NoUser

\* Faulty variant: the lookup ignores the id and returns the oldest user.
FindUserByIdOldest(id) ==
  IF users = {} THEN NoUser
  ELSE CHOOSE u \in users : \A v \in users : u.id <= v.id

\* prisma.user.findUnique({ where: { id } })
FindUserById(id) ==
  IF \E u \in users : u.id = id
    THEN CHOOSE u \in users : u.id = id
    ELSE NoUser

\* Faulty variant: delete tolerates a missing row, as deleteMany does.
DeleteNeverRejects(id) == FALSE

\* prisma.refreshToken.delete({ where: { id } }) rejects (P2025) when no row
\* has that id.
DeleteRejects(id) == ~(\E row \in refreshTokens : row.id = id)

\* prisma.refreshToken.update({ where: { id } }) rejects (P2025) likewise.
UpdateRejects(id) == ~(\E row \in refreshTokens : row.id = id)

\* Faulty variant: logout calls delete, which rejects a missing row.
DeleteManyRejectsMissing(id) == ~(\E row \in refreshTokens : row.id = id)

\* prisma.refreshToken.deleteMany({ where: { id } }) never rejects.
DeleteManyRejects(id) == FALSE

\* Faulty variant: the delete leaves the row in place.
WithoutNothing(id) == refreshTokens

\* Faulty variant: every row of the user who owns that row goes with it.
WithoutSessionsOfUser(id) ==
  {row \in refreshTokens : row.userId # FindToken(id).userId}

\* The table without the rows of that id.
Without(id) == {row \in refreshTokens : row.id # id}

\* RefreshToken.token is @unique: create and update reject (P2002) when
\* another row already holds the same token string.
TokenTaken(token, id) ==
  \E row \in refreshTokens : row.token = token /\ row.id # id

\* User.email is @unique.
EmailTaken(email) == \E u \in users : u.email = email

\* ------------------------------------------------------- handler plumbing
\* A request arrives: the slots are used in order of arrival.
Arrives(r) ==
  /\ req[r].pc = "idle"
  /\ IF r = 1 THEN TRUE ELSE req[r - 1].pc # "idle"

\* The handler state of a request that has just arrived.
Fresh(kind) ==
  [Idle EXCEPT !.kind = kind, !.at = now,
               !.with = {q \in DOMAIN req : req[q].pc \notin {"idle", "done"}},
               !.before = [users |-> users, refreshTokens |-> refreshTokens]]

\* return NextResponse.json(...)
Return(r, s, resp) == [s EXCEPT !.pc = "done", !.resp = resp]

\* catch (error) { ...; return NextResponse.json({ error: "Internal server
\* error" }, { status: 500 }) }: the same block ends every handler.
Catch(r, s, cause) ==
  [s EXCEPT !.pc = "done", !.threw = cause, !.threwAt = s.pc,
            !.resp = Json(500, "Internal server error")]

\* response.cookies.set("refreshToken", token, { ..., maxAge: 60*60*24*7 })
\* on NextResponse.json({ user: { id, email }, accessToken }, { status })
Issued(status, s) ==
  [status |-> status, error |-> "", setCookie |-> TRUE,
   cookie |-> s.refreshToken, maxAge |-> COOKIE_MAX_AGE,
   accessToken |-> s.accessToken,
   user |-> [s.user EXCEPT !.passwordHash = <<>>]]

\* response.cookies.set("refreshToken", "", { ..., maxAge: 0 }) on
\* NextResponse.json({ message: "Logged out successfully" }, { status: 200 })
LoggedOut ==
  [NoResp EXCEPT !.status = 200, !.setCookie = TRUE, !.cookie = EMPTY,
                 !.maxAge = 0]

\* prisma.refreshToken.create({ data: { userId, token: "", expiresAt } }),
\* then generateAccessToken and generateRefreshToken with the new row's id.
Create(r) ==
  LET s == req[r]
      row == [id |-> nextId + 1, token |-> EMPTY, userId |-> s.user.id,
              expiresAt |-> s.expiry]
  IN IF TokenTaken(EMPTY, 0)
       THEN /\ req' = [req EXCEPT ![r] = Catch(r, s, "P2002")]
            /\ UNCHANGED <<users, refreshTokens, nextId, now, ticks, client>>
       ELSE /\ refreshTokens' = refreshTokens \cup {row}
            /\ nextId' = nextId + 1
            /\ req' = [req EXCEPT ![r] =
                 [s EXCEPT !.pc = "update", !.newRecord = row,
                   !.accessToken = generateAccessToken(s.user.id, s.user.email, now),
                   !.refreshToken = generateRefreshToken(s.user.id, row.id, now)]]
            /\ UNCHANGED <<users, now, ticks, client>>

\* prisma.refreshToken.update({ where: { id }, data: { token } }), then the
\* response with the cookie.
Update(r, status) ==
  LET s == req[r]
      id == s.newRecord.id
  IN IF UpdateRejects(id)
       THEN /\ req' = [req EXCEPT ![r] = Catch(r, s, "P2025")]
            /\ UNCHANGED <<users, refreshTokens, nextId, now, ticks, client>>
       ELSE IF TokenTaken(s.refreshToken, id)
         THEN /\ req' = [req EXCEPT ![r] = Catch(r, s, "P2002")]
              /\ UNCHANGED <<users, refreshTokens, nextId, now, ticks, client>>
         ELSE /\ refreshTokens' =
                   {IF row.id = id THEN [row EXCEPT !.token = s.refreshToken]
                                   ELSE row : row \in refreshTokens}
              /\ req' = [req EXCEPT ![r] = Return(r, s, Issued(status, s))]
              /\ UNCHANGED <<users, nextId, now, ticks, client>>

\* ----------------------------------------------------- POST /auth/refresh
StartRefresh(r, cookie) ==
  /\ Arrives(r)
  /\ LET s == [Fresh("refresh") EXCEPT !.cookie = cookie]
         payload == verifyRefreshToken(cookie, now)
     IN req' = [req EXCEPT ![r] =
          IF Falsy(cookie)
            THEN Return(r, s, Json(401, "No refresh token provided"))
            ELSE IF payload = ABSENT
              THEN Return(r, s, Json(401, "Invalid or expired refresh token"))
              ELSE [s EXCEPT !.pc = "findUnique", !.payload = payload]]
  /\ UNCHANGED <<users, refreshTokens, nextId, now, ticks, client>>

\* Faulty variant: the comparison with the stored row is skipped.
NeverStale(row, cookie, t) == FALSE

\* The row of the presented token is stale: its token string is not the
\* presented one, or its expiresAt has passed.
Stale(row, cookie, t) == row.token # cookie \/ row.expiresAt < t

RefreshFindUnique(r) ==
  /\ req[r].kind = "refresh" /\ req[r].pc = "findUnique"
  /\ LET s == req[r]
         row == FindToken(s.payload.tokenId)
         found == [s EXCEPT !.refreshTokenRecord = row, !.checkedAt = now,
                            !.user = FindUserById(row.userId)]
     IN req' = [req EXCEPT ![r] =
          IF row = NoRow
            THEN Return(r, s, Json(401, "Refresh token not found"))
            ELSE IF Stale(row, s.cookie, now)
              THEN [found EXCEPT !.pc = "deleteStale"]
              ELSE [found EXCEPT !.pc = "delete"]]
  /\ UNCHANGED <<users, refreshTokens, nextId, now, ticks, client>>

\* Both calls of prisma.refreshToken.delete({ where: { id:
\* refreshTokenRecord.id } }): the one that removes a stale row and answers
\* 401, and the one that rotates.
RefreshDelete(r) ==
  /\ req[r].kind = "refresh" /\ req[r].pc \in {"deleteStale", "delete"}
  /\ LET s == req[r]
         id == s.refreshTokenRecord.id
     IN IF DeleteRejects(id)
          THEN /\ req' = [req EXCEPT ![r] = Catch(r, s, "P2025")]
               /\ UNCHANGED refreshTokens
          ELSE /\ refreshTokens' = Without(id)
               /\ req' = [req EXCEPT ![r] =
                    IF s.pc = "deleteStale"
                      THEN Return(r, s, Json(401, "Invalid or expired refresh token"))
                      ELSE [s EXCEPT !.pc = "create",
                                     !.expiry = now + RECORD_TTL]]
  /\ UNCHANGED <<users, nextId, now, ticks, client>>

RefreshCreate(r) ==
  /\ req[r].kind = "refresh" /\ req[r].pc = "create"
  /\ Create(r)

RefreshUpdate(r) ==
  /\ req[r].kind = "refresh" /\ req[r].pc = "update"
  /\ Update(r, 200)

\* ------------------------------------------------------ POST /auth/logout
StartLogout(r, cookie) ==
  /\ Arrives(r)
  /\ LET s == [Fresh("logout") EXCEPT !.cookie = cookie]
         payload == verifyRefreshToken(cookie, now)
     IN req' = [req EXCEPT ![r] =
          IF ~Falsy(cookie) /\ payload # ABSENT
            THEN [s EXCEPT !.pc = "deleteMany", !.payload = payload]
            ELSE Return(r, s, LoggedOut)]
  /\ UNCHANGED <<users, refreshTokens, nextId, now, ticks, client>>

LogoutDeleteMany(r) ==
  /\ req[r].kind = "logout" /\ req[r].pc = "deleteMany"
  /\ LET s == req[r]
         id == s.payload.tokenId
     IN IF DeleteManyRejects(id)
          THEN /\ req' = [req EXCEPT ![r] = Catch(r, s, "P2025")]
               /\ UNCHANGED refreshTokens
          ELSE /\ refreshTokens' = Without(id)
               /\ req' = [req EXCEPT ![r] = Return(r, s, LoggedOut)]
  /\ UNCHANGED <<users, nextId, now, ticks, client>>

\* ---------------------------------------------------- POST /auth/register
StartRegister(r, email, password) ==
  /\ Arrives(r)
  /\ LET s == [Fresh("register") EXCEPT !.email = email, !.password = password]
         passwordValidation == validatePassword(password)
     IN req' = [req EXCEPT ![r] =
          IF Len(email) = 0 \/ Len(password) = 0
            THEN Return(r, s, Json(400, "Email and password are required"))
            ELSE IF ~validateEmail(email)
              THEN Return(r, s, Json(400, "Invalid email format"))
              ELSE IF ~passwordValidation.valid
                THEN Return(r, s, Json(400, passwordValidation.error))
                ELSE [s EXCEPT !.pc = "findUnique"]]
  /\ UNCHANGED <<users, refreshTokens, nextId, now, ticks, client>>

RegisterFindUnique(r) ==
  /\ req[r].kind = "register" /\ req[r].pc = "findUnique"
  /\ LET s == req[r]
         existingUser == FindUserByEmail(toLowerCase(s.email))
     IN req' = [req EXCEPT ![r] =
          IF existingUser # NoUser
            THEN Return(r, s, Json(409, "User with this email already exists"))
            ELSE [s EXCEPT !.pc = "createUser"]]
  /\ UNCHANGED <<users, refreshTokens, nextId, now, ticks, client>>

RegisterCreateUser(r) ==
  /\ req[r].kind = "register" /\ req[r].pc = "createUser"
  /\ LET s == req[r]
         user == [id |-> nextId + 1, email |-> toLowerCase(s.email),
                  passwordHash |-> hashPassword(s.password)]
     IN IF EmailTaken(user.email)
          THEN /\ req' = [req EXCEPT ![r] = Catch(r, s, "P2002")]
               /\ UNCHANGED <<users, nextId>>
          ELSE /\ users' = users \cup {user}
               /\ nextId' = nextId + 1
               /\ req' = [req EXCEPT ![r] =
                    [s EXCEPT !.pc = "create", !.user = user,
                              !.expiry = now + RECORD_TTL]]
  /\ UNCHANGED <<refreshTokens, now, ticks, client>>

RegisterCreate(r) ==
  /\ req[r].kind = "register" /\ req[r].pc = "create"
  /\ Create(r)

RegisterUpdate(r) ==
  /\ req[r].kind = "register" /\ req[r].pc = "update"
  /\ Update(r, 201)

\* ------------------------------------------------------- POST /auth/login
StartLogin(r, email, password) ==
  /\ Arrives(r)
  /\ LET s == [Fresh("login") EXCEPT !.email = email, !.password = password]
     IN req' = [req EXCEPT ![r] =
          IF Len(email) = 0 \/ Len(password) = 0
            THEN Return(r, s, Json(400, "Email and password are required"))
            ELSE IF ~validateEmail(email)
              THEN Return(r, s, Json(400, "Invalid email format"))
              ELSE [s EXCEPT !.pc = "findUnique"]]
  /\ UNCHANGED <<users, refreshTokens, nextId, now, ticks, client>>

\* Faulty variant: an unknown email gets an answer of its own.
LoginNoUserLeaks == Json(404, "User not found")

\* if (!user) ... 401
LoginNoUser == Json(401, "Invalid email or password")

\* if (!isValidPassword) ... 401
LoginBadPassword == Json(401, "Invalid email or password")

LoginFindUnique(r) ==
  /\ req[r].kind = "login" /\ req[r].pc = "findUnique"
  /\ LET s == req[r]
         user == FindUserByEmail(toLowerCase(s.email))
     IN req' = [req EXCEPT ![r] =
          IF user = NoUser
            THEN Return(r, s, LoginNoUser)
            ELSE IF ~verifyPassword(s.password, user.passwordHash)
              THEN Return(r, [s EXCEPT !.user = user], LoginBadPassword)
              ELSE [s EXCEPT !.pc = "create", !.user = user,
                             !.expiry = now + RECORD_TTL]]
  /\ UNCHANGED <<users, refreshTokens, nextId, now, ticks, client>>

\* Faulty variant: login keeps one session per user, so the new row
\* replaces the user's older rows.
LoginCreateSingleSession(r) ==
  /\ req[r].kind = "login" /\ req[r].pc = "create"
  /\ LET s == req[r]
         row == [id |-> nextId + 1, token |-> EMPTY, userId |-> s.user.id,
                 expiresAt |-> s.expiry]
     IN /\ refreshTokens' =
             {old \in refreshTokens : old.userId # s.user.id} \cup {row}
        /\ nextId' = nextId + 1
        /\ req' = [req EXCEPT ![r] =
             [s EXCEPT !.pc = "update", !.newRecord = row,
               !.accessToken = generateAccessToken(s.user.id, s.user.email, now),
               !.refreshToken = generateRefreshToken(s.user.id, row.id, now)]]
        /\ UNCHANGED <<users, now, ticks, client>>

LoginCreate(r) ==
  /\ req[r].kind = "login" /\ req[r].pc = "create"
  /\ Create(r)

LoginUpdate(r) ==
  /\ req[r].kind = "login" /\ req[r].pc = "update"
  /\ Update(r, 200)

\* ------------------------------------------------------------ GET /auth/me
\* The Authorization header carries "Bearer " and the token; ABSENT stands
\* for a request without such a header.
StartMe(r, token) ==
  /\ Arrives(r)
  /\ LET s == [Fresh("me") EXCEPT !.accessToken = token]
         payload == verifyAccessToken(token, now)
     IN req' = [req EXCEPT ![r] =
          IF token = ABSENT
            THEN Return(r, s, Json(401, "No access token provided"))
            ELSE IF payload = ABSENT
              THEN Return(r, s, Json(401, "Invalid or expired access token"))
              ELSE [s EXCEPT !.pc = "findUser", !.payload = payload]]
  /\ UNCHANGED <<users, refreshTokens, nextId, now, ticks, client>>

\* Faulty variant: the user is returned only while a session row of theirs
\* exists.
MeUserWithSession(payload) ==
  IF \E row \in refreshTokens : row.userId = payload.userId
    THEN FindUserById(payload.userId)
    ELSE NoUser

\* prisma.user.findUnique({ where: { id: payload.userId }, select: { id,
\* email, createdAt } })
MeUser(payload) == FindUserById(payload.userId)

MeFindUnique(r) ==
  /\ req[r].kind = "me" /\ req[r].pc = "findUser"
  /\ LET s == req[r]
         user == MeUser(s.payload)
     IN req' = [req EXCEPT ![r] =
          IF user = NoUser
            THEN Return(r, s, Json(404, "User not found"))
            ELSE Return(r, [s EXCEPT !.user = user],
                        [NoResp EXCEPT !.status = 200,
                           !.user = [user EXCEPT !.passwordHash = <<>>]])]
  /\ UNCHANGED <<users, refreshTokens, nextId, now, ticks, client>>

\* ------------------------------------------------- AuthProvider (client)
\* Faulty variant: the effect has no cleanup, so an interval that was set
\* stays set when the token becomes null.
IntervalEffectNoCleanup(c, accessToken) ==
  IF Falsy(accessToken) THEN c.interval
                        ELSE [armed |-> TRUE, since |-> now]

\* useEffect(() => { if (!accessToken) return; const interval =
\* setInterval(refreshAuth, 14 min); return () => clearInterval(interval) },
\* [accessToken, refreshAuth]): when the token's value changes the cleanup
\* clears the interval and the effect sets a new one unless the token is
\* null; when the value is the same the effect does not run.
IntervalEffect(c, accessToken) ==
  IF accessToken = c.accessToken
    THEN c.interval
    ELSE IF Falsy(accessToken) THEN NoInterval
                               ELSE [armed |-> TRUE, since |-> now]

\* isAuthenticated: !!user
isAuthenticated(c) == c.user # NoUser

\* Faulty variant: only the user is set; the token keeps its old value.
SetAuthUserOnly(c, user, accessToken) == [c EXCEPT !.user = user]

\* setUser(user); setAccessToken(accessToken), and the effects of the
\* render they cause.
SetAuth(c, user, accessToken) ==
  [c EXCEPT !.user = user, !.accessToken = accessToken,
            !.interval = IntervalEffect(c, accessToken)]

\* The browser applies the response's Set-Cookie to the cookie jar.
StoreCookie(cookie, resp) ==
  IF ~resp.setCookie THEN cookie
  ELSE IF resp.maxAge = 0 THEN ABSENT ELSE resp.cookie

\* response.ok
Ok(resp) == resp.status \in 200..299

\* The response of request r is delivered to the tab.
Delivered(r) ==
  [client EXCEPT !.cookie = StoreCookie(@, req[r].resp),
                 !.received = @ \cup {r}]

\* The fetches whose promise has not settled yet.
Awaited ==
  {r \in DOMAIN req : req[r].pc # "idle" /\ r \notin client.received}

\* The next time the interval fires: since + 14 min, + 28 min, ...
NextFire ==
  client.interval.since
    + REFRESH_INTERVAL
        * ((now - client.interval.since) \div REFRESH_INTERVAL + 1)

\* The interval's callback is due now and has not run yet.
TimerDue ==
  /\ client.interval.armed
  /\ now > client.interval.since
  /\ (now - client.interval.since) % REFRESH_INTERVAL = 0
  /\ ~(\E r \in DOMAIN req : req[r].kind = "refresh" /\ req[r].at = now)

\* Faulty variant: initAuth never clears isLoading.
SettleInitNever(c, r) == c

\* initAuth: await refreshAuth(); setIsLoading(false)
SettleInit(c, r) ==
  [c EXCEPT !.isLoading = IF r = c.first THEN FALSE ELSE @]

\* Faulty variant: the guard does not wait for isLoading.
RequireAuthEager(c) ==
  IF c.view = "protected" /\ c.user = NoUser
    THEN [c EXCEPT !.redirected = TRUE]
    ELSE c

\* useRequireAuth, after a render: if (!isLoading && !isAuthenticated)
\* setShouldRedirect(true), and then window.location.href = redirectUrl.
RequireAuth(c) ==
  IF c.view = "protected" /\ ~c.isLoading /\ c.user = NoUser
    THEN [c EXCEPT !.redirected = TRUE]
    ELSE c

\* Faulty variant: a failed response is treated like a successful one.
ThrowsNever(c, r, fallback) == c

\* throw new Error(data.error || fallback)
Throws(c, r, fallback) ==
  [c EXCEPT !.thrown =
     @ \cup {<<r, IF req[r].resp.error = "" THEN fallback
                                            ELSE req[r].resp.error>>}]

\* The mount effect: initAuth calls refreshAuth, which posts to
\* /api/auth/refresh with the cookie jar.
InitAuth ==
  /\ client.isLoading
  /\ client.first \in DOMAIN req
  /\ StartRefresh(client.first, client.cookie)

\* The interval's callback: refreshAuth().
TimerFire(r) ==
  /\ TimerDue
  /\ StartRefresh(r, client.cookie)

\* A component calls refreshAuth() from the context value, whatever else is
\* in flight.
ManualRefresh(r) ==
  /\ ~client.isLoading
  /\ StartRefresh(r, client.cookie)

\* The interval's callback while the network is down: the fetch rejects
\* without reaching the server and refreshAuth's catch clears the state.
TimerFireOffline(r) ==
  /\ TimerDue
  /\ Arrives(r)
  /\ req' = [req EXCEPT ![r] =
       [Fresh("refresh") EXCEPT !.cookie = client.cookie, !.pc = "lost"]]
  /\ client' =
       RequireAuth(SettleInit(
         SetAuth([client EXCEPT !.received = @ \cup {r}, !.failed = @ \cup {r}],
                 NoUser, ABSENT), r))
  /\ UNCHANGED <<users, refreshTokens, nextId, now, ticks>>

\* refreshAuth after its fetch has resolved; initAuth then clears isLoading.
RefreshAuthSettles(r) ==
  /\ req[r].kind = "refresh" /\ req[r].pc = "done" /\ r \in Awaited
  /\ client' =
       RequireAuth(SettleInit(
         IF Ok(req[r].resp)
           THEN SetAuth(Delivered(r), req[r].resp.user, req[r].resp.accessToken)
           ELSE SetAuth(Delivered(r), NoUser, ABSENT), r))
  /\ UNCHANGED <<users, refreshTokens, nextId, now, ticks, req>>

\* login(email, password)
ClientLogin(r, email, password) ==
  /\ Awaited = {} /\ ~client.isLoading
  /\ StartLogin(r, email, password)

\* login after its fetch has resolved: throws when the response is not ok.
LoginSettles(r) ==
  /\ req[r].kind = "login" /\ req[r].pc = "done" /\ r \in Awaited
  /\ client' =
       RequireAuth(
         IF Ok(req[r].resp)
           THEN SetAuth(Delivered(r), req[r].resp.user, req[r].resp.accessToken)
           ELSE Throws(Delivered(r), r, "Login failed"))
  /\ UNCHANGED <<users, refreshTokens, nextId, now, ticks, req>>

\* register(email, password)
ClientRegister(r, email, password) ==
  /\ Awaited = {} /\ ~client.isLoading
  /\ StartRegister(r, email, password)

\* register after its fetch has resolved.
RegisterSettles(r) ==
  /\ req[r].kind = "register" /\ req[r].pc = "done" /\ r \in Awaited
  /\ client' =
       RequireAuth(
         IF Ok(req[r].resp)
           THEN SetAuth(Delivered(r), req[r].resp.user, req[r].resp.accessToken)
           ELSE Throws(Delivered(r), r, "Registration failed"))
  /\ UNCHANGED <<users, refreshTokens, nextId, now, ticks, req>>

\* Faulty variant: logout has no catch, so a rejected fetch reaches logout's
\* caller.
LogoutCatchRethrows(c, r) ==
  [c EXCEPT !.thrown = @ \cup {<<r, "Failed to fetch">>}]

\* logout's catch (error) { console.error("Logout error:", error) }
LogoutCatch(c, r) == c

\* logout's finally { setUser(null); setAccessToken(null) }
LogoutFinally(c) == SetAuth(c, NoUser, ABSENT)

\* logout()
ClientLogout(r) ==
  /\ Awaited = {} /\ client.accessToken # ABSENT
  /\ StartLogout(r, client.cookie)

\* logout's finally block, whatever the response.
LogoutSettles(r) ==
  /\ req[r].kind = "logout" /\ req[r].pc = "done" /\ r \in Awaited
  /\ client' = RequireAuth(LogoutFinally(Delivered(r)))
  /\ UNCHANGED <<users, refreshTokens, nextId, now, ticks, req>>

\* The fetch of request r rejects (the response is lost on the network):
\* refreshAuth's catch and logout's finally clear the state; login and
\* register have no catch, so the rejection reaches their caller.
FetchRejects(r) ==
  /\ r \in Awaited /\ req[r].pc = "done"
  /\ LET c == [client EXCEPT !.received = @ \cup {r}, !.failed = @ \cup {r}]
     IN client' =
          RequireAuth(SettleInit(
            IF req[r].kind = "logout"
              THEN LogoutFinally(LogoutCatch(c, r))
            ELSE IF req[r].kind = "refresh"
              THEN SetAuth(c, NoUser, ABSENT)
              ELSE [c EXCEPT !.thrown = @ \cup {<<r, "Failed to fetch">>}], r))
  /\ UNCHANGED <<users, refreshTokens, nextId, now, ticks, req>>

\* The page is loaded anew (a reload, or the navigation useRequireAuth
\* started): the provider's state is lost, the cookie jar is kept, the
\* guard's effect runs after the first render and the mount effect will run
\* again.
Reload(view) ==
  /\ Awaited = {}
  /\ ~client.isLoading
  /\ client' =
       RequireAuth(
         [Unmounted EXCEPT
            !.cookie = client.cookie, !.received = client.received,
            !.failed = client.failed, !.thrown = client.thrown,
            !.view = view,
            !.first = Cardinality({r \in DOMAIN req : req[r].pc # "idle"}) + 1])
  /\ UNCHANGED <<users, refreshTokens, nextId, now, ticks, req>>

\* d seconds pass while a response is on its way; an interval that is set
\* fires on time, so the clock does not pass its next firing.
Elapse(d) ==
  /\ ticks < MaxWaits
  /\ \E r \in Awaited : req[r].pc = "done"
  /\ ~TimerDue
  /\ client.interval.armed => now + d <= NextFire
  /\ now' = now + d
  /\ ticks' = ticks + 1
  /\ UNCHANGED <<users, refreshTokens, nextId, req, client>>

\* Time passes until the interval fires next.
WaitForTimer ==
  /\ ticks < MaxWaits
  /\ client.interval.armed
  /\ ~TimerDue
  /\ now' = NextFire
  /\ ticks' = ticks + 1
  /\ UNCHANGED <<users, refreshTokens, nextId, req, client>>

\* ------------------------------------------------------------ environment
\* The clock advances by d seconds.
Tick(d) ==
  /\ ticks < MaxTicks
  /\ now' = now + d
  /\ ticks' = ticks + 1
  /\ UNCHANGED <<users, refreshTokens, nextId, req, client>>

\* The database is unreachable: the pending prisma call of request r rejects
\* and the handler's catch block answers.
StoreFault(r) ==
  /\ req[r].pc \in {"findUnique", "deleteStale", "delete", "deleteMany",
                    "createUser", "create", "update", "findUser"}
  /\ req' = [req EXCEPT ![r] = Catch(r, req[r], "unavailable")]
  /\ UNCHANGED <<users, refreshTokens, nextId, now, ticks, client>>

\* Seconds that pass between two awaits of a handler.
SKEW == 2

\* No request is being handled.
Quiet == \A r \in DOMAIN req : req[r].pc \in {"idle", "done"}

\* The steps of each handler after its first.
RegisterStep(r) ==
  \/ RegisterFindUnique(r) \/ RegisterCreateUser(r) \/ RegisterCreate(r)
  \/ RegisterUpdate(r)

LoginStep(r) == LoginFindUnique(r) \/ LoginCreate(r) \/ LoginUpdate(r)

RefreshStep(r) ==
  \/ RefreshFindUnique(r) \/ RefreshDelete(r) \/ RefreshCreate(r)
  \/ RefreshUpdate(r)

LogoutStep(r) == LogoutDeleteMany(r)

MeStep(r) == MeFindUnique(r)

\* ------------------------------------------- the library called directly
\* const passwordValidation = validatePassword(password), on the password
\* that slot r was given.
CallValidatePassword(r) ==
  /\ req[r].pc = "idle" /\ req[r].kind = "none"
  /\ req' = [req EXCEPT ![r] =
       [req[r] EXCEPT !.kind = "validatePassword", !.pc = "done",
          !.passwordValidation = validatePassword(req[r].password)]]
  /\ UNCHANGED <<users, refreshTokens, nextId, now, ticks, client>>

\* generateAccessToken({ userId, email })
CallGenerateAccessToken(r, userId, email) ==
  /\ Arrives(r)
  /\ req' = [req EXCEPT ![r] =
       [Fresh("generateAccessToken") EXCEPT
          !.pc = "done", !.user = [NoUser EXCEPT !.id = userId, !.email = email],
          !.accessToken = generateAccessToken(userId, email, now)]]
  /\ UNCHANGED <<users, refreshTokens, nextId, now, ticks, client>>

\* generateRefreshToken({ userId, tokenId })
CallGenerateRefreshToken(r, userId, tokenId) ==
  /\ Arrives(r)
  /\ req' = [req EXCEPT ![r] =
       [Fresh("generateRefreshToken") EXCEPT
          !.pc = "done", !.user = [NoUser EXCEPT !.id = userId],
          !.newRecord = [NoRow EXCEPT !.id = tokenId],
          !.refreshToken = generateRefreshToken(userId, tokenId, now)]]
  /\ UNCHANGED <<users, refreshTokens, nextId, now, ticks, client>>

\* verifyAccessToken(token)
CallVerifyAccessToken(r, token) ==
  /\ Arrives(r)
  /\ req' = [req EXCEPT ![r] =
       [Fresh("verifyAccessToken") EXCEPT
          !.pc = "done", !.cookie = token,
          !.payload = verifyAccessToken(token, now)]]
  /\ UNCHANGED <<users, refreshTokens, nextId, now, ticks, client>>

\* verifyRefreshToken(token)
CallVerifyRefreshToken(r, token) ==
  /\ Arrives(r)
  /\ req' = [req EXCEPT ![r] =
       [Fresh("verifyRefreshToken") EXCEPT
          !.pc = "done", !.cookie = token,
          !.payload = verifyRefreshToken(token, now)]]
  /\ UNCHANGED <<users, refreshTokens, nextId, now, ticks, client>>

\* --------------------------------------------------------------- workloads
\* What clients hold: the cookies and access tokens of the responses so far.
IssuedCookies ==
  {req[r].resp.cookie :
     r \in {q \in DOMAIN req : req[q].resp.cookie.form = "jwt"}}

IssuedAccess ==
  {req[r].resp.accessToken :
     r \in {q \in DOMAIN req : req[q].resp.accessToken.form = "jwt"}}

\* The same claims signed by someone who does not hold the server's secret.
Forged(token) == [token EXCEPT !.key = "attacker-secret"]

alice == <<"a", "@", "b", ".", "c">>
Alice == <<"A", "@", "b", ".", "c">>
bob == <<"b", "@", "b", ".", "c">>
notAnEmail == <<"a", "b", ".", "c">>

Password1 == <<"P", "a", "s", "s", "w", "o", "r", "d", "1">>
lowercaseBang == <<"l", "o", "w", "e", "r", "c", "a", "s", "e", "!">>

\* n copies of character c.
Rep(c, n) == [i \in 1..n |-> c]

\* Passwords of every length up to MaxPwLen and every mix of lowercase
\* letters, uppercase letters, digits and special characters.
Passwords ==
  {Rep("a", l) \o Rep("A", u) \o Rep("1", d) \o Rep("!", x) :
     <<l, u, d, x>> \in
       {q \in (0..MaxPwLen) \X (0..MaxPwLen) \X (0..MaxPwLen) \X (0..MaxPwLen) :
          q[1] + q[2] + q[3] + q[4] <= MaxPwLen}}

\* What a client can put in the refreshToken cookie: nothing, junk, a cookie
\* it was given, a forgery of one, or an access token it was given.
Presentable ==
  {ABSENT, GARBAGE} \cup IssuedCookies \cup {Forged(c) : c \in IssuedCookies}
    \cup IssuedAccess

\* A registration, then logins, refresh and logout requests that overlap
\* freely.
Next ==
  \E r \in Slots :
    \/ r = 1 /\ StartRegister(r, alice, Password1)
    \/ StartLogin(r, Alice, Password1)
    \/ \E c \in IssuedCookies : StartRefresh(r, c)
    \/ \E c \in IssuedCookies : StartLogout(r, c)
    \/ RegisterStep(r) \/ LoginStep(r) \/ RefreshStep(r) \/ LogoutStep(r)

Spec == Init /\ [][Next]_vars

\* One request at a time: a registration, then refresh and logout requests
\* with any cookie a client can present.  The clock runs: seconds pass while
\* a request is handled, days between requests.
NextSeq ==
  \E r \in Slots :
    \/ r = 1 /\ StartRegister(r, alice, Password1)
    \/ Quiet /\ \E c \in Presentable : StartRefresh(r, c)
    \/ Quiet /\ \E c \in Presentable : StartLogout(r, c)
    \/ RegisterStep(r) \/ RefreshStep(r) \/ LogoutStep(r)
    \/ Quiet /\ Tick(REFRESH_TTL - 1)
    \/ ~Quiet /\ Tick(SKEW)

SpecSeq == Init /\ [][NextSeq]_vars

\* One request at a time: registrations and logins with any credentials.
NextLogin ==
  \E r \in Slots :
    \/ Quiet /\ \E e \in {alice, Alice, bob} : StartRegister(r, e, Password1)
    \/ Quiet /\ \E e \in {alice, Alice, bob, notAnEmail} :
                \E p \in {Password1, lowercaseBang, <<>>} : StartLogin(r, e, p)
    \/ RegisterStep(r) \/ LoginStep(r)

SpecLogin == Init /\ [][NextLogin]_vars

tooShort == <<"P", "w", "1", "!">>
password1 == <<"p", "a", "s", "s", "w", "o", "r", "d", "1">>

\* One request at a time: registrations with well-formed, malformed and
\* missing emails, strong and weak passwords, fresh and taken addresses, and
\* logins with right and wrong credentials.
NextReject ==
  \E r \in Slots :
    \/ Quiet /\ \E e \in {alice, Alice, notAnEmail, <<>>} :
                \E p \in {Password1, tooShort, password1} :
                  StartRegister(r, e, p)
    \/ Quiet /\ \E e \in {alice, bob, notAnEmail} :
                \E p \in {Password1, lowercaseBang} : StartLogin(r, e, p)
    \/ RegisterStep(r) \/ LoginStep(r)

SpecReject == Init /\ [][NextReject]_vars

\* One request at a time, over a database that can become unreachable: a
\* registration, retried until it succeeds, then refresh and logout requests.
NextFault ==
  \E r \in Slots :
    \/ Quiet /\ (\A q \in Slots : req[q].resp.status # 201)
             /\ StartRegister(r, Alice, Password1)
    \/ Quiet /\ \E c \in IssuedCookies : StartRefresh(r, c)
    \/ Quiet /\ \E c \in IssuedCookies : StartLogout(r, c)
    \/ RegisterStep(r) \/ RefreshStep(r) \/ LogoutStep(r)
    \/ StoreFault(r)

SpecFault == Init /\ [][NextFault]_vars

\* The requests of a journey, numbered by arrival.
Journey == 1..MaxJourney

\* One client's journey, one request at a time: a registration, then
\* GET /auth/me with or without a token it holds, logins that open further
\* sessions, refreshes and logouts with the cookies it holds, while the clock
\* moves on by the access-token lifetime.
InitJourney ==
  /\ client = Unmounted
  /\ users = {}
  /\ refreshTokens = {}
  /\ nextId = 0
  /\ now = 0
  /\ ticks = 0
  /\ req = [r \in Journey |-> Idle]

NextJourney ==
  \/ \E r \in Journey :
       \/ r = 1 /\ StartRegister(r, Alice, Password1)
       \/ Quiet /\ StartLogin(r, alice, Password1)
       \/ Quiet /\ \E t \in IssuedAccess \cup {ABSENT} : StartMe(r, t)
       \/ Quiet /\ \E c \in IssuedCookies : StartRefresh(r, c)
       \/ Quiet /\ \E c \in IssuedCookies : StartLogout(r, c)
       \/ RegisterStep(r) \/ LoginStep(r) \/ RefreshStep(r) \/ LogoutStep(r)
       \/ MeStep(r)
  \/ Quiet /\ Tick(ACCESS_TTL)

SpecJourney == InitJourney /\ [][NextJourney]_vars

\* The fetches of the tab, numbered in order.
Fetches == 1..MaxFetch

\* One browser tab against the server: the tab mounts, registers or logs
\* in, renews on its interval and logs out; every request goes through the
\* route handlers; the network is quick, slow, or fails.
InitClient ==
  /\ client = Unmounted
  /\ users = {}
  /\ refreshTokens = {}
  /\ nextId = 0
  /\ now = 0
  /\ ticks = 0
  /\ req = [r \in Fetches |-> Idle]

NextClient ==
  \/ InitAuth
  \/ \E r \in Fetches :
       \/ TimerFire(r) \/ TimerFireOffline(r)
       \/ client.accessToken = ABSENT /\ ClientRegister(r, alice, Password1)
       \/ client.accessToken = ABSENT /\ ClientLogin(r, alice, Password1)
       \/ ClientLogout(r)
       \/ RegisterStep(r) \/ LoginStep(r) \/ RefreshStep(r) \/ LogoutStep(r)
       \/ RefreshAuthSettles(r) \/ LoginSettles(r) \/ RegisterSettles(r)
       \/ LogoutSettles(r)
       \/ FetchRejects(r)
  \/ Elapse(FAST) \/ Elapse(SLOW)
  \/ WaitForTimer

SpecClient == InitClient /\ [][NextClient]_vars

\* One browser tab on a public or a protected page, without the clock: it
\* mounts, registers, logs in with a right or a wrong password, logs out and
\* is loaded anew; responses can be lost and the store can fail a logout.
InitTab ==
  /\ \E view \in {"public", "protected"} :
       client = RequireAuth([Unmounted EXCEPT !.view = view])
  /\ users = {}
  /\ refreshTokens = {}
  /\ nextId = 0
  /\ now = 0
  /\ ticks = 0
  /\ req = [r \in Fetches |-> Idle]

NextTab ==
  \/ InitAuth
  \/ \E r \in Fetches :
       \/ ~client.redirected /\ ClientRegister(r, alice, Password1)
       \/ ~client.redirected /\ \E p \in {Password1, lowercaseBang} :
                                  ClientLogin(r, alice, p)
       \/ ~client.redirected /\ ClientLogout(r)
       \/ RegisterStep(r) \/ LoginStep(r) \/ RefreshStep(r) \/ LogoutStep(r)
       \/ RefreshAuthSettles(r) \/ LoginSettles(r) \/ RegisterSettles(r)
       \/ LogoutSettles(r)
       \/ FetchRejects(r)
       \/ req[r].kind = "logout" /\ StoreFault(r)
  \/ \E view \in {"public", "protected"} : Reload(view)

SpecTab == InitTab /\ [][NextTab]_vars

\* The mount effect runs, the server goes on handling a refresh it has
\* accepted, and a fetch settles: it resolves or it rejects.
FairTab ==
  /\ WF_vars(InitAuth)
  /\ \A r \in Fetches :
       /\ WF_vars(RefreshStep(r))
       /\ WF_vars(RefreshAuthSettles(r) \/ FetchRejects(r))

SpecTabLive == SpecTab /\ FairTab

\* One browser tab whose refreshAuth calls can overlap: it mounts,
\* registers, and then calls refreshAuth while earlier calls may still be in
\* flight; the responses are processed in any order.
NextOverlap ==
  \/ InitAuth
  \/ \E r \in Fetches :
       \/ client.accessToken = ABSENT /\ ClientRegister(r, alice, Password1)
       \/ client.accessToken # ABSENT /\ ManualRefresh(r)
       \/ RegisterStep(r) \/ RefreshStep(r)
       \/ RefreshAuthSettles(r) \/ RegisterSettles(r)

SpecOverlap == InitClient /\ [][NextOverlap]_vars

\* Two users: their registrations, logins and the redemption of any cookie
\* issued so far, overlapping freely.
NextTwoUsers ==
  \E r \in Slots :
    \/ r <= 2 /\ \E e \in {alice, bob} : StartRegister(r, e, Password1)
    \/ \E e \in {alice, bob} : StartLogin(r, e, Password1)
    \/ \E c \in IssuedCookies : StartRefresh(r, c)
    \/ RegisterStep(r) \/ LoginStep(r) \/ RefreshStep(r)

SpecTwoUsers == Init /\ [][NextTwoUsers]_vars

\* Registrations of one address, in either letter case, overlapping freely.
NextRegisterRace ==
  \E r \in Slots :
    \/ \E e \in {alice, Alice} : StartRegister(r, e, Password1)
    \/ RegisterStep(r)

SpecRegisterRace == Init /\ [][NextRegisterRace]_vars

\* validatePassword on its own, on every password of Passwords.
InitPassword ==
  /\ client = Unmounted
  /\ users = {}
  /\ refreshTokens = {}
  /\ nextId = 0
  /\ now = 0
  /\ ticks = 0
  /\ \E p \in Passwords :
       req = [r \in Slots |-> IF r = 1 THEN [Idle EXCEPT !.password = p]
                                      ELSE Idle]

NextPassword == CallValidatePassword(1)

SpecPassword == InitPassword /\ [][NextPassword]_vars

\* The calls of the codec, numbered in order.
Calls == 1..MaxCalls

\* The tokens the codec has produced so far.
Generated ==
  {req[r].accessToken : r \in {q \in Calls : req[q].kind = "generateAccessToken"}}
    \cup
  {req[r].refreshToken : r \in {q \in Calls : req[q].kind = "generateRefreshToken"}}

\* The token codec on its own: the first two calls may sign a token of
\* either class, every call may verify a signed token under either verifier,
\* and the clock runs to either side of the access lifetime.
InitCodec ==
  /\ client = Unmounted
  /\ users = {}
  /\ refreshTokens = {}
  /\ nextId = 0
  /\ now \in {0, RECORD_TTL}
  /\ ticks = 0
  /\ req = [r \in Calls |-> Idle]

NextCodec ==
  \/ \E r \in 1..2 : \E c \in {<<1, alice>>, <<2, bob>>} :
       CallGenerateAccessToken(r, c[1], c[2])
  \/ \E r \in 1..2 : \E c \in {<<1, 1>>, <<2, 2>>} :
       CallGenerateRefreshToken(r, c[1], c[2])
  \/ \E r \in Calls : \E token \in Generated : CallVerifyAccessToken(r, token)
  \/ \E r \in Calls : \E token \in Generated : CallVerifyRefreshToken(r, token)
  \/ Tick(ACCESS_TTL - 1)
  \/ Tick(SKEW)

SpecCodec == InitCodec /\ [][NextCodec]_vars

\* ------------------------------------------------------------ vocabulary
Done(r) == req[r].pc = "done"

\* Request r is the latest to have arrived.
Latest(r) ==
  /\ req[r].pc # "idle"
  /\ \A q \in DOMAIN req : q > r => req[q].pc = "idle"

\* Requests a and b were in progress at the same time.
Overlap(a, b) == a \in req[b].with \/ b \in req[a].with

\* The three conditions of a valid refresh token: (a) signed with the
\* refresh secret, (b) its own exp not passed at time t1, (c) a row with its
\* tokenId in `table`, not expired at time t2, storing exactly this string.
ValidRefreshToken(token, table, t1, t2) ==
  /\ token.form = "jwt" /\ token.key = JWT_REFRESH_SECRET
  /\ t1 < token.exp
  /\ \E row \in table :
       /\ row.id = token.tokenId
       /\ row.expiresAt >= t2
       /\ row.token = token

\* The cookie of request r was valid when r arrived.
ValidOnArrival(r) ==
  ValidRefreshToken(req[r].cookie, req[r].before.refreshTokens,
                    req[r].at, req[r].at)

\* 401 InvalidOrExpiredRefreshToken
InvalidOrExpiredRefreshToken(resp) ==
  /\ resp.status = 401
  /\ resp.error \in {"Invalid or expired refresh token",
                     "Refresh token not found"}
  /\ ~resp.setCookie /\ resp.accessToken = ABSENT

\* ------------------------------------------------------------------ claims
\* C1: refresh tokens are single-use.  Of all the refresh requests that
\* present the same refresh token, however their database steps interleave,
\* at most one returns 200 with a new token pair.
C1_SingleUse ==
  \A a \in Slots : \A b \in Slots :
    ( /\ a # b
      /\ req[a].kind = "refresh" /\ req[b].kind = "refresh"
      /\ req[a].cookie = req[b].cookie
      /\ req[a].resp.status = 200 )
    => req[b].resp.status # 200

\* C1 witness: two overlapping refreshes of one cookie both got past
\* findUnique; one returned 200 with a new pair, the other has completed.
C1_Witness ==
  \E a \in Slots : \E b \in Slots :
    /\ a # b /\ Overlap(a, b)
    /\ req[a].kind = "refresh" /\ req[b].kind = "refresh"
    /\ req[a].cookie = req[b].cookie
    /\ req[a].resp.status = 200 /\ req[a].resp.setCookie
    /\ Done(b) /\ req[b].refreshTokenRecord # NoRow

\* C2: two concurrent refresh requests with the same valid refresh cookie:
\* in every interleaving exactly one returns 200 and the other fails with
\* 401 InvalidOrExpiredRefreshToken, never with another outcome such as 500.
\* (No other request touches the session.)
C2_ExactlyOneOtherUnauthorized ==
  \A a \in Slots : \A b \in Slots :
    ( /\ a # b /\ Overlap(a, b)
      /\ req[a].kind = "refresh" /\ req[b].kind = "refresh"
      /\ req[a].cookie = req[b].cookie
      /\ ValidOnArrival(a) /\ ValidOnArrival(b)
      /\ Done(a) /\ Done(b)
      /\ \A q \in Slots \ {a, b} : req[q].kind \in {"none", "register"} )
    => \/ req[a].resp.status = 200 /\ InvalidOrExpiredRefreshToken(req[b].resp)
       \/ req[b].resp.status = 200 /\ InvalidOrExpiredRefreshToken(req[a].resp)

\* C3: rotation and replay, one request at a time.  Once a refresh that
\* presented cookie C1 has returned 200 with new cookie C2, (a) every later
\* refresh presenting C1 fails with 401 InvalidOrExpiredRefreshToken, and
\* (b) the first later request presenting C2, made while C2 is within its
\* lifetime, is a refresh that returns 200.
C3_RotationReplay ==
  \A a \in Slots : \A b \in Slots :
    ( /\ a < b
      /\ req[a].kind = "refresh" /\ req[a].resp.status = 200
      /\ req[b].kind = "refresh" /\ Done(b) )
    => /\ req[b].cookie = req[a].cookie
            => InvalidOrExpiredRefreshToken(req[b].resp)
       /\ ( /\ req[b].cookie = req[a].resp.cookie
            /\ \A q \in Slots : (a < q /\ q < b) => req[q].cookie # req[b].cookie
            /\ now <= req[a].newRecord.expiresAt )
            => req[b].resp.status = 200

\* C3 witness: C1 was redeemed, then replayed and refused, then C2 was
\* redeemed.
C3_Witness ==
  \E a \in Slots : \E b \in Slots : \E c \in Slots :
    /\ a < b /\ b < c
    /\ req[a].kind = "refresh" /\ req[a].resp.status = 200
    /\ req[b].kind = "refresh" /\ req[b].cookie = req[a].cookie
    /\ req[b].resp.status = 401
    /\ req[c].kind = "refresh" /\ req[c].cookie = req[a].resp.cookie
    /\ req[c].resp.status = 200

\* C4: a refresh executed on its own returns 200 if and only if the
\* presented token is signed with the refresh secret, its own exp has not
\* passed when it is verified, and the row with its tokenId exists, has not
\* expired when it is compared and stores exactly the presented string; in
\* every other case it fails, sets no cookie, returns no access token and
\* leaves no new row.
C4_ValidIffAllThree ==
  \A r \in Slots :
    (req[r].kind = "refresh" /\ Done(r))
    => /\ req[r].resp.status = 200
            <=> ValidRefreshToken(req[r].cookie, req[r].before.refreshTokens,
                                  req[r].at, req[r].checkedAt)
       /\ req[r].resp.status # 200
            => /\ req[r].resp.status \in {401, 500}
               /\ ~req[r].resp.setCookie
               /\ req[r].resp.accessToken = ABSENT
               /\ req[r].newRecord = NoRow

\* C4 witness: a correctly signed, unexpired token whose row had expired was
\* refused after another one had been accepted.
C4_Witness ==
  \E a \in Slots : \E b \in Slots :
    /\ req[a].kind = "refresh" /\ req[a].resp.status = 200
    /\ req[b].kind = "refresh" /\ req[b].resp.status = 401
    /\ req[b].cookie.key = JWT_REFRESH_SECRET
    /\ req[b].at < req[b].cookie.exp
    /\ req[b].refreshTokenRecord.token = req[b].cookie
    /\ req[b].refreshTokenRecord.expiresAt < req[b].checkedAt

\* The rows of the session that cookie c belongs to, as far as refresh f
\* carried it on: the row c names and the row f created in its place.
SessionRows(c, f) ==
  {row \in refreshTokens : row.id \in {c.tokenId, req[f].newRecord.id}}

\* C5: a logout and a refresh that present the same refresh cookie race.
\* In every interleaving, once both have completed no valid session
\* survives: the RefreshToken table holds no row descended from that session.
C5_NoSessionSurvivesLogout ==
  \A l \in Slots : \A f \in Slots :
    ( /\ req[l].kind = "logout" /\ req[f].kind = "refresh"
      /\ req[l].cookie = req[f].cookie
      /\ Overlap(l, f)
      /\ ValidOnArrival(l) /\ ValidOnArrival(f)
      /\ Done(l) /\ Done(f) )
    => SessionRows(req[l].cookie, f) = {}

\* A logout answer: 200 and the refreshToken cookie set to "" with max-age 0.
ClearsCookie(resp) ==
  resp.setCookie /\ resp.cookie = EMPTY /\ resp.maxAge = 0

\* C6: logout succeeds whatever the cookie: absent, malformed, forged,
\* expired, rotated away, already logged out or valid, every logout returns
\* 200 and clears the refreshToken cookie (max-age 0), also when it is
\* called twice in a row.
C6_LogoutAlwaysSucceeds ==
  \A r \in Slots :
    (req[r].kind = "logout" /\ Done(r))
    => req[r].resp.status = 200 /\ ClearsCookie(req[r].resp)

\* C6 witness: two logouts in a row with the same cookie, valid for the
\* first, both answered.
C6_Witness ==
  \E r \in Slots :
    /\ r + 1 \in Slots
    /\ req[r].kind = "logout" /\ req[r + 1].kind = "logout"
    /\ req[r].cookie = req[r + 1].cookie
    /\ ValidOnArrival(r)
    /\ Done(r) /\ Done(r + 1)
    /\ req[r + 1].resp.status = 200

\* C7: when logout ends in 500 (the deleteMany rejected), the response still
\* clears the refreshToken cookie (max-age 0).
C7_LogoutFailureClearsCookie ==
  \A r \in Slots :
    (req[r].kind = "logout" /\ Done(r) /\ req[r].resp.status = 500)
    => ClearsCookie(req[r].resp)

\* C8: refresh is atomic for its caller.  When a refresh does not return 200
\* because a database call after validation rejected (the delete of the old
\* row, the create of the new row or its update), the RefreshToken table is
\* as it was before the call, so the presented token is still redeemable.
C8_RefreshAtomic ==
  \A r \in Slots :
    ( /\ req[r].kind = "refresh" /\ Done(r) /\ Latest(r)
      /\ req[r].resp.status # 200
      /\ req[r].threwAt \in {"delete", "create", "update"} )
    => /\ refreshTokens = req[r].before.refreshTokens
       /\ ValidRefreshToken(req[r].cookie, refreshTokens, now, now)

\* C9: register is atomic for its caller.  Whenever a register does not
\* return 201, the call has created no User, so a retry with the same email
\* is not refused as already taken.
C9_RegisterAtomic ==
  \A r \in Slots :
    (req[r].kind = "register" /\ Done(r) /\ req[r].resp.status # 201)
    => /\ Latest(r) => users = req[r].before.users
       /\ \A q \in Slots :
            ( /\ r < q /\ req[q].kind = "register" /\ Done(q)
              /\ toLowerCase(req[q].email) = toLowerCase(req[r].email)
              /\ ~(\E u \in req[r].before.users :
                     u.email = toLowerCase(req[r].email))
              /\ ~(\E m \in Slots : r < m /\ m < q /\ req[m].resp.status = 201) )
            => req[q].resp.status # 409

\* The login of request r names an email no User has.
NoSuchUser(r) ==
  ~(\E u \in req[r].before.users : u.email = toLowerCase(req[r].email))

\* The login of request r names a User and gives a password that is not
\* the User's.
WrongPassword(r) ==
  \E u \in req[r].before.users :
    /\ u.email = toLowerCase(req[r].email)
    /\ u.passwordHash # hashPassword(req[r].password)

\* A login with a well-formed email and a non-empty password whose
\* credentials are wrong.
BadLogin(r) ==
  /\ req[r].kind = "login" /\ Done(r)
  /\ validateEmail(req[r].email) /\ Len(req[r].password) > 0
  /\ NoSuchUser(r) \/ WrongPassword(r)

\* C10: login does not reveal which credential was wrong.  A login for an
\* email with no User and a login for an existing User with a wrong password
\* get the same response, status 401 with the same error message, and
\* neither changes the User table or the RefreshToken table.
C10_LoginIndistinguishable ==
  /\ \A a \in Slots : \A b \in Slots :
       (BadLogin(a) /\ NoSuchUser(a) /\ BadLogin(b) /\ WrongPassword(b))
       => /\ req[a].resp = req[b].resp
          /\ req[a].resp.status = 401
          /\ req[a].resp.error = "Invalid email or password"
  /\ \A r \in Slots :
       (BadLogin(r) /\ Latest(r))
       => /\ users = req[r].before.users
          /\ refreshTokens = req[r].before.refreshTokens

\* C10 witness: both kinds of failed login have been answered, the second
\* against a table that holds a User.
C10_Witness ==
  \E a \in Slots : \E b \in Slots :
    /\ BadLogin(a) /\ NoSuchUser(a)
    /\ BadLogin(b) /\ WrongPassword(b)
    /\ req[a].before.users # {}
    /\ req[a].resp.status = 401 /\ req[b].resp.status = 401

\* Two emails are equal up to letter case.
EqualIgnoringCase(a, b) ==
  /\ Len(a) = Len(b)
  /\ \A i \in 1..Len(a) : LowerOf(a[i]) = LowerOf(b[i])

\* Request r is a completed register with a well-formed email and a
\* password that meets the strength rule.
ValidRegister(r) ==
  /\ req[r].kind = "register" /\ Done(r)
  /\ validateEmail(req[r].email)
  /\ validatePassword(req[r].password).valid

\* C11: register calls made one after another with valid (email, password)
\* pairs: the first register for an email returns 201, every later register
\* whose email equals it up to letter case fails with 409 EmailTaken, and no
\* two User records ever have emails that are equal ignoring case.
C11_RegisterOncePerEmail ==
  /\ \A r \in Slots :
       ValidRegister(r)
       => IF \E q \in Slots : /\ q < r /\ ValidRegister(q)
                              /\ EqualIgnoringCase(req[q].email, req[r].email)
            THEN /\ req[r].resp.status = 409
                 /\ req[r].resp.error = "User with this email already exists"
            ELSE req[r].resp.status = 201
  /\ \A u \in users : \A v \in users :
       EqualIgnoringCase(u.email, v.email) => u = v

\* C11 witness: an email was registered, the same email in another letter
\* case was refused, and a different email was registered after that.
C11_Witness ==
  \E a \in Slots : \E b \in Slots : \E c \in Slots :
    /\ a < b /\ b < c
    /\ ValidRegister(a) /\ ValidRegister(b) /\ ValidRegister(c)
    /\ req[a].email # req[b].email
    /\ EqualIgnoringCase(req[a].email, req[b].email)
    /\ req[a].resp.status = 201 /\ req[b].resp.status = 409
    /\ req[c].resp.status = 201
    /\ Cardinality(users) = 2

\* Password p has an uppercase letter or a character that is neither a
\* letter nor a digit.
HasUppercaseOrSpecial(p) ==
  \E i \in 1..Len(p) :
    p[i] \in UPPER \/ (p[i] \notin LOWER /\ p[i] \notin UPPER /\ p[i] \notin DIGIT)

\* C12: validatePassword(p) returns valid exactly when length(p) >= 8 and p
\* has at least one character in A-Z or at least one non-alphanumeric
\* character; every p shorter than 8 is rejected whatever its characters,
\* and when both rules are violated the reported reason is the length rule.
C12_ValidatePassword ==
  \A r \in Slots :
    req[r].kind = "validatePassword"
    => LET p == req[r].password
           v == req[r].passwordValidation
       IN /\ v.valid <=> (Len(p) >= 8 /\ HasUppercaseOrSpecial(p))
          /\ Len(p) < 8
               => /\ ~v.valid
                  /\ v.error = "Password must be at least 8 characters long"
          /\ (Len(p) >= 8 /\ ~HasUppercaseOrSpecial(p))
               => /\ ~v.valid
                  /\ v.error = "Password must contain at least one uppercase letter or special character"

\* C12 witness: a password that violates both rules was rejected.
C12_Witness ==
  \E r \in Slots :
    /\ req[r].kind = "validatePassword"
    /\ Len(req[r].password) \in 1..7
    /\ ~HasUppercaseOrSpecial(req[r].password)
    /\ ~req[r].passwordValidation.valid

\* Call v verified the access token that call g generated.
VerifiesAccessOf(v, g) ==
  /\ req[g].kind = "generateAccessToken"
  /\ req[v].kind \in {"verifyAccessToken", "verifyRefreshToken"}
  /\ req[v].cookie = req[g].accessToken

\* Call v verified the refresh token that call g generated.
VerifiesRefreshOf(v, g) ==
  /\ req[g].kind = "generateRefreshToken"
  /\ req[v].kind \in {"verifyAccessToken", "verifyRefreshToken"}
  /\ req[v].cookie = req[g].refreshToken

\* C13: token round trip and domain separation.  verifyAccessToken of a
\* token from generateAccessToken(c), before its expiry, yields claims with
\* the userId and email of c; verifyRefreshToken of that token returns null
\* at any time; and a token from generateRefreshToken never verifies under
\* verifyAccessToken.
C13_RoundTripAndDomains ==
  \A g \in Calls : \A v \in Calls :
    /\ (VerifiesAccessOf(v, g) /\ req[v].kind = "verifyAccessToken"
          /\ req[v].at < req[g].at + ACCESS_TTL)
       => /\ req[v].payload # ABSENT
          /\ req[v].payload.userId = req[g].user.id
          /\ req[v].payload.email = req[g].user.email
    /\ (VerifiesAccessOf(v, g) /\ req[v].kind = "verifyRefreshToken")
       => req[v].payload = ABSENT
    /\ (VerifiesRefreshOf(v, g) /\ req[v].kind = "verifyAccessToken")
       => req[v].payload = ABSENT

\* C13 witness: an unexpired access token went through both verifiers and
\* an unexpired refresh token went through the access verifier.
C13_Witness ==
  \E g \in Calls : \E h \in Calls : \E v \in Calls : \E w \in Calls :
    /\ VerifiesAccessOf(v, g) /\ req[v].kind = "verifyAccessToken"
    /\ req[v].payload # ABSENT
    /\ VerifiesAccessOf(w, g) /\ req[w].kind = "verifyRefreshToken"
    /\ req[w].at < req[g].at + ACCESS_TTL
    /\ req[w].payload = ABSENT
    /\ \E x \in Calls :
         /\ VerifiesRefreshOf(x, h) /\ req[x].kind = "verifyAccessToken"
         /\ req[x].at < req[h].at + REFRESH_TTL
         /\ req[x].payload = ABSENT

\* C14: the access-token expiry boundary.  An access token issued at time t
\* is accepted by verifyAccessToken at t + 14m59s and rejected (null) at
\* t + 15m01s.
C14_ExpiryBoundary ==
  \A g \in Calls : \A v \in Calls :
    (VerifiesAccessOf(v, g) /\ req[v].kind = "verifyAccessToken")
    => /\ req[v].at = req[g].at + (14 * 60 + 59) => req[v].payload # ABSENT
       /\ req[v].at = req[g].at + (15 * 60 + 1) => req[v].payload = ABSENT

\* C14 witness: one access token was verified on both sides of the boundary.
C14_Witness ==
  \E g \in Calls : \E v \in Calls : \E w \in Calls :
    /\ VerifiesAccessOf(v, g) /\ req[v].kind = "verifyAccessToken"
    /\ VerifiesAccessOf(w, g) /\ req[w].kind = "verifyAccessToken"
    /\ req[v].at = req[g].at + (14 * 60 + 59)
    /\ req[w].at = req[g].at + (15 * 60 + 1)
    /\ req[v].payload # ABSENT /\ req[w].payload = ABSENT

\* Request m is a completed GET /auth/me that presented `token`.
MeWith(m, token) ==
  req[m].kind = "me" /\ Done(m) /\ req[m].accessToken = token

\* GET /auth/me request m was answered 200 with the email under which
\* register g stored its User.
MeReturnsUserOf(m, g) ==
  /\ req[m].resp.status = 200
  /\ req[m].resp.user.id = req[g].resp.user.id
  /\ req[m].resp.user.email = toLowerCase(req[g].email)

\* Request f is the first to present cookie c.
FirstUse(f, c) ==
  /\ req[f].cookie = c
  /\ \A q \in Journey : q < f => req[q].cookie # c

\* C15: end-to-end session continuity.  After a successful register,
\* GET /auth/me with the issued access token returns 200 with the registered
\* email; once 15 minutes have passed the same token gets 401; a refresh
\* with the original refresh cookie (unused, within 7 days) then returns 200
\* with a new access token that GET /auth/me accepts.
C15_SessionContinuity ==
  \A g \in Journey :
    (req[g].kind = "register" /\ req[g].resp.status = 201)
    => LET A == req[g].resp.accessToken
           C == req[g].resp.cookie
       IN /\ \A m \in Journey :
               MeWith(m, A)
               => IF req[m].at < A.iat + ACCESS_TTL
                    THEN MeReturnsUserOf(m, g)
                    ELSE req[m].resp.status = 401
          /\ \A f \in Journey :
               ( /\ req[f].kind = "refresh" /\ Done(f)
                 /\ FirstUse(f, C)
                 /\ req[f].at < C.iat + REFRESH_TTL )
               => /\ req[f].resp.status = 200
                  /\ req[f].resp.accessToken.form = "jwt"
                  /\ req[f].at >= A.iat + ACCESS_TTL
                       => req[f].resp.accessToken # A
                  /\ \A m \in Journey :
                       ( /\ MeWith(m, req[f].resp.accessToken)
                         /\ req[m].at < req[f].resp.accessToken.iat + ACCESS_TTL )
                       => MeReturnsUserOf(m, g)

\* C15 witness: the whole journey: me accepted, me refused 15 minutes
\* later, the original cookie refreshed, me accepted with the new token.
C15_Witness ==
  \E g \in Journey : \E m \in Journey : \E n \in Journey :
  \E f \in Journey : \E k \in Journey :
    /\ req[g].kind = "register" /\ req[g].resp.status = 201
    /\ g < m /\ m < n /\ n < f /\ f < k
    /\ MeWith(m, req[g].resp.accessToken) /\ req[m].resp.status = 200
    /\ MeWith(n, req[g].resp.accessToken) /\ req[n].resp.status = 401
    /\ req[f].kind = "refresh" /\ req[f].cookie = req[g].resp.cookie
    /\ req[f].resp.status = 200
    /\ req[f].resp.accessToken # req[g].resp.accessToken
    /\ MeWith(k, req[f].resp.accessToken) /\ req[k].resp.status = 200

\* The request that issued access token `token` (in its response body).
IssuerOf(token) ==
  {g \in Journey : req[g].resp.accessToken = token /\ token.form = "jwt"}

\* C16: GET /auth/me is independent of the session store.  Two requests
\* with the same access token at the same time, over the same User table,
\* get the same result whatever the RefreshToken table holds; in particular
\* an unexpired access token is still accepted after its session was logged
\* out or rotated.
C16_MeIgnoresSessions ==
  /\ \A a \in Journey : \A b \in Journey :
       ( /\ req[a].kind = "me" /\ Done(a) /\ MeWith(b, req[a].accessToken)
         /\ req[a].at = req[b].at
         /\ req[a].before.users = req[b].before.users )
       => req[a].resp = req[b].resp
  /\ \A m \in Journey : \A g \in Journey :
       ( /\ g \in IssuerOf(req[m].accessToken)
         /\ MeWith(m, req[g].resp.accessToken)
         /\ req[m].at < req[g].resp.accessToken.exp
         /\ ~(\E row \in req[m].before.refreshTokens :
                row.id = req[g].newRecord.id) )
       => req[m].resp.status = 200

\* C16 witness: the same token at the same time, before and after the
\* logout that removed its session (the user's only one): both accepted.
C16_Witness ==
  \E a \in Journey : \E b \in Journey : \E g \in Journey :
    /\ a < b /\ g \in IssuerOf(req[a].accessToken)
    /\ req[a].kind = "me" /\ MeWith(b, req[a].accessToken)
    /\ req[a].at = req[b].at
    /\ req[a].before.refreshTokens # {}
    /\ req[b].before.refreshTokens = {}
    /\ req[a].resp.status = 200 /\ req[b].resp.status = 200

\* Refresh r presented a token that fails signature verification.
BadSignature(r) ==
  /\ ~Falsy(req[r].cookie)
  /\ req[r].cookie.form # "jwt" \/ req[r].cookie.key # JWT_REFRESH_SECRET

\* Refresh r presented a correctly signed token that is expired: its own
\* exp has passed, or the expiresAt of its row has.
Expired(r) ==
  /\ req[r].cookie.form = "jwt" /\ req[r].cookie.key = JWT_REFRESH_SECRET
  /\ \/ req[r].at >= req[r].cookie.exp
     \/ \E row \in req[r].before.refreshTokens :
          /\ row.id = req[r].cookie.tokenId
          /\ row.expiresAt < req[r].checkedAt

\* Refresh r presented a correctly signed, unexpired token whose row was
\* revoked (logout) or rotated away (an earlier refresh).
RevokedOrRotated(r) ==
  /\ req[r].cookie.form = "jwt" /\ req[r].cookie.key = JWT_REFRESH_SECRET
  /\ req[r].at < req[r].cookie.exp
  /\ ~(\E row \in req[r].before.refreshTokens :
         row.id = req[r].cookie.tokenId)

\* C17: refresh rejections are uniform.  A presented refresh token that
\* fails signature verification, one that is expired, and one whose record
\* was revoked or rotated away all get the same client-visible failure, the
\* same 401 status and the same error, so that a caller cannot tell the
\* three cases apart.
C17_UniformRefreshRejection ==
  \A a \in Slots : \A b \in Slots :
    ( /\ req[a].kind = "refresh" /\ Done(a)
      /\ req[b].kind = "refresh" /\ Done(b)
      /\ BadSignature(a) \/ Expired(a) \/ RevokedOrRotated(a)
      /\ BadSignature(b) \/ Expired(b) \/ RevokedOrRotated(b) )
    => /\ req[a].resp.status = 401
       /\ req[a].resp = req[b].resp

\* C18: logout with a valid refresh cookie deletes exactly the
\* RefreshToken row whose id is the cookie's tokenId; every other row,
\* including the same user's other sessions, and the User table are left
\* unchanged.
C18_LogoutDeletesOnlyItsRow ==
  \A l \in Journey :
    (req[l].kind = "logout" /\ Done(l) /\ Latest(l) /\ ValidOnArrival(l))
    => /\ refreshTokens =
            {row \in req[l].before.refreshTokens :
               row.id # req[l].cookie.tokenId}
       /\ refreshTokens # req[l].before.refreshTokens
       /\ users = req[l].before.users

\* C18 witness: a user with two sessions logged out of one; the other
\* session's row is still there.
C18_Witness ==
  \E l \in Journey :
    /\ req[l].kind = "logout" /\ Done(l) /\ Latest(l) /\ ValidOnArrival(l)
    /\ \E row \in refreshTokens :
         /\ row.userId = req[l].cookie.userId
         /\ row.id # req[l].cookie.tokenId
         /\ row \in req[l].before.refreshTokens
    /\ Cardinality(req[l].before.refreshTokens) = Cardinality(refreshTokens) + 1

\* An interval is set exactly when the tab holds an access token.
TimerMatchesToken ==
  client.interval.armed <=> client.accessToken # ABSENT

\* C19: the client's renewal timer.  In every state of the tab a 14-minute
\* interval is set if and only if the held access token is non-null; the
\* interval is cleared by the step in which the token becomes null, and set
\* anew, counting from zero, by each step that sets a new access token.
C19_TimerLifecycle ==
  /\ []TimerMatchesToken
  /\ [][client.accessToken' # client.accessToken
          => IF client.accessToken' = ABSENT
               THEN ~client.interval.armed'
               ELSE /\ client.interval.armed'
                    /\ client.interval.since' = now']_vars

\* C19 witness: the interval fired, the renewal came back with a new token
\* and the interval was set anew at that moment.
C19_Witness ==
  \E r \in Fetches :
    /\ req[r].kind = "refresh" /\ req[r].cookie # ABSENT
    /\ r \in client.received /\ req[r].resp.status = 200
    /\ req[r].at >= REFRESH_INTERVAL
    /\ client.accessToken = req[r].resp.accessToken
    /\ client.interval.armed /\ client.interval.since = now
    /\ now > req[r].at

\* Every refresh call that carried a cookie has succeeded so far.
EveryRefreshSucceeds ==
  \A r \in Fetches :
    (req[r].kind = "refresh" /\ req[r].cookie # ABSENT)
    => /\ r \notin client.failed
       /\ Done(r) => req[r].resp.status = 200

\* The renewals whose response the tab is waiting for.
Renewals == {r \in Awaited : req[r].kind = "refresh"}

\* Seconds the network has taken from the held token: from its signing to
\* its being set in the tab, plus the time the oldest renewal under way has
\* been out.
NetworkTime ==
  (client.interval.since - client.accessToken.iat)
    + (IF Renewals = {} THEN 0
       ELSE now - (CHOOSE t \in {req[r].at : r \in Renewals} :
                     \A r \in Renewals : t <= req[r].at))

\* C20 as stated: in a single-tab session where every refresh call
\* succeeds, the access token held by the client is never expired at any
\* time between login and logout.
C20_ContinuouslyValid ==
  (client.accessToken # ABSENT /\ EveryRefreshSucceeds)
  => now < client.accessToken.exp

\* C20 amended: in a single-tab session where every refresh call succeeds
\* and the interval fires on time, the held access token is unexpired for as
\* long as the network has taken less than the one-minute margin between the
\* 14-minute interval and the 15-minute lifetime.
C20_ValidWithinMargin ==
  ( /\ client.accessToken # ABSENT /\ EveryRefreshSucceeds
    /\ NetworkTime < ACCESS_TTL - REFRESH_INTERVAL )
  => now < client.accessToken.exp

\* C20 witness: the tab holds a token it got from a renewal on the
\* interval, after a quick exchange, more than 14 minutes into the session.
C20_Witness ==
  \E r \in Fetches :
    /\ req[r].kind = "refresh" /\ req[r].cookie # ABSENT
    /\ r \in client.received /\ req[r].resp.status = 200
    /\ client.accessToken = req[r].resp.accessToken
    /\ EveryRefreshSucceeds
    /\ NetworkTime \in 1..(ACCESS_TTL - REFRESH_INTERVAL - 1)
    /\ now > REFRESH_INTERVAL
    /\ now < client.accessToken.exp

\* C21: after a client refresh attempt has failed because of a network
\* error, the local session state is cleared and the client goes on making
\* refresh attempts on its 14-minute interval: with the cookie still valid,
\* the interval is still set after the failure, so that a later tick can
\* restore the session.
C21_RetriesAfterNetworkError ==
  \A r \in Fetches :
    ( /\ req[r].kind = "refresh" /\ r \in client.failed /\ Latest(r)
      /\ ValidRefreshToken(client.cookie, refreshTokens, now, now) )
    => /\ client.user = NoUser /\ client.accessToken = ABSENT
       /\ client.interval.armed

\* The mount refresh of the tab has settled (resolved or rejected).
MountSettled == client.first \in client.received

\* The fetch that settles in this step, if it is the mount refresh.
MountSettles ==
  /\ client.first \notin client.received
  /\ client.first \in client'.received
  /\ client'.first = client.first

\* C22: on mount the client calls refresh exactly once; if it succeeds the
\* client holds the returned user and access token, if it is rejected or
\* throws the client holds user = null and accessToken = null; isLoading is
\* true until that call has settled and false in every state afterwards.
C22_MountRefresh ==
  /\ [](/\ client.isLoading <=> ~MountSettled
        /\ \A r \in Fetches :
             (r >= client.first /\ req[r].pc # "idle" /\ client.isLoading)
               => r = client.first /\ req[r].kind = "refresh"
        /\ MountSettled => req[client.first].kind = "refresh")
  /\ [][MountSettles =>
          LET r == client.first
          IN IF r \notin client'.failed /\ Ok(req[r].resp)
               THEN /\ client'.user = req[r].resp.user
                    /\ client'.accessToken = req[r].resp.accessToken
                    /\ client'.user # NoUser
                    /\ client'.accessToken # ABSENT
               ELSE /\ client'.user = NoUser
                    /\ client'.accessToken = ABSENT]_vars
  /\ [][(~client.isLoading /\ client'.first = client.first)
          => ~client'.isLoading]_vars

\* C22 witness: a tab that was loaded anew with a valid cookie has finished
\* its mount refresh and holds the user and the token of the response.
C22_Witness ==
  /\ client.first > 1 /\ MountSettled /\ ~client.isLoading
  /\ client.first \notin client.failed
  /\ req[client.first].resp.status = 200
  /\ client.user = req[client.first].resp.user
  /\ client.accessToken = req[client.first].resp.accessToken
  /\ client.user # NoUser

\* The fetch of request r settles in this step.
Settles(r) == r \notin client.received /\ r \in client'.received

\* C23: client logout always ends with user = null and accessToken = null,
\* whether the POST /auth/logout call succeeds, returns an error status or
\* throws a network error, and it never throws to its caller.
C23_LogoutAlwaysClears ==
  /\ [][\A r \in Fetches :
          (req[r].kind = "logout" /\ Settles(r))
            => /\ client'.user = NoUser
               /\ client'.accessToken = ABSENT
               /\ client'.thrown = client.thrown]_vars
  /\ [](\A r \in Fetches :
          req[r].kind = "logout" => \A e \in client.thrown : e[1] # r)

\* C23 witness: one logout was answered with an error status, another one
\* lost its response on the network, and the tab holds no session.
C23_Witness ==
  /\ \E r \in Fetches :
       /\ req[r].kind = "logout" /\ r \in client.received \ client.failed
       /\ req[r].resp.status = 500
  /\ \E r \in Fetches :
       /\ req[r].kind = "logout" /\ r \in client.failed /\ Latest(r)
  /\ client.user = NoUser /\ client.accessToken = ABSENT

\* The guard's condition: a protected view has finished loading and holds
\* no user.
LoadedUnauthenticated ==
  client.view = "protected" /\ ~client.isLoading /\ client.user = NoUser

\* A protected view is about to mount with a cookie that refresh will not
\* accept.
SilentRefreshWillFail ==
  /\ client.view = "protected" /\ client.isLoading
  /\ client.first \in Fetches /\ req[client.first].pc = "idle"
  /\ ~ValidRefreshToken(client.cookie, refreshTokens, now, now)

\* C24: useRequireAuth navigates to the redirect target when, and only
\* when, a state is reached with isLoading = false and isAuthenticated =
\* false; it never redirects while the initial refresh is still loading, and
\* a client whose silent refresh fails on a protected view is eventually
\* redirected.
C24_RouteGuard ==
  /\ [](client.redirected <=> LoadedUnauthenticated)
  /\ [](client.isLoading => ~client.redirected)
  /\ [][\A r \in Fetches :
          ( /\ req[r].kind = "refresh" /\ Settles(r)
            /\ client.view = "protected"
            /\ (r \in client'.failed \/ ~Ok(req[r].resp)) )
            => client'.redirected]_vars
  /\ SilentRefreshWillFail ~> client.redirected

\* C24 witness: a protected view that was loaded with a cookie the server
\* no longer accepts has been redirected after its mount refresh was
\* answered 401.
C24_Witness ==
  /\ client.redirected /\ LoadedUnauthenticated
  /\ client.first > 1 /\ client.cookie # ABSENT
  /\ req[client.first].kind = "refresh"
  /\ req[client.first].resp.status = 401
  /\ client.first \notin client.failed

\* C25: client login and register: on a non-success response the action
\* throws an error carrying the server's reason string and leaves the held
\* user and accessToken unchanged; on success it sets both to the values in
\* the response.
C25_LoginRegisterOutcome ==
  /\ [][\A r \in Fetches :
          ( /\ req[r].kind \in {"login", "register"} /\ Settles(r)
            /\ r \notin client'.failed )
            => IF Ok(req[r].resp)
                 THEN /\ client'.user = req[r].resp.user
                      /\ client'.accessToken = req[r].resp.accessToken
                      /\ client'.user # NoUser
                      /\ client'.accessToken # ABSENT
                      /\ client'.thrown = client.thrown
                 ELSE /\ req[r].resp.error # ""
                      /\ <<r, req[r].resp.error>> \in client'.thrown
                      /\ client'.user = client.user
                      /\ client'.accessToken = client.accessToken]_vars
  /\ [](\A e \in client.thrown :
          e[1] \notin client.failed
            => /\ req[e[1]].kind \in {"login", "register"}
               /\ ~Ok(req[e[1]].resp)
               /\ e[2] = req[e[1]].resp.error)

\* C25 witness: a tab that holds a session has had a login refused with 401
\* and a register refused with 409; both threw the server's reason and the
\* session is still held.
C25_Witness ==
  /\ client.user # NoUser /\ client.accessToken # ABSENT
  /\ \E r \in Fetches :
       /\ req[r].kind = "login" /\ req[r].resp.status = 401
       /\ <<r, "Invalid email or password">> \in client.thrown
  /\ \E r \in Fetches :
       /\ req[r].kind = "register" /\ req[r].resp.status = 409
       /\ <<r, req[r].resp.error>> \in client.thrown
  /\ \E r \in Fetches :
       /\ req[r].kind \in {"login", "register"} /\ req[r].resp.status \in {200, 201}
       /\ r \in client.received \ client.failed
       /\ client.user = req[r].resp.user

\* Refresh request r found a row for the presented tokenId whose token string
\* is not the presented one or whose expiresAt had passed when it was read.
FoundStale(r) ==
  /\ req[r].kind = "refresh"
  /\ req[r].refreshTokenRecord # NoRow
  /\ \/ req[r].refreshTokenRecord.token # req[r].cookie
     \/ req[r].refreshTokenRecord.expiresAt < req[r].checkedAt

\* C26: when refresh finds a record for the presented tokenId but the stored
\* token string differs from the presented one or the record's expiresAt is
\* in the past, the call deletes that record and fails with 401; after the
\* call no record with that id exists and no new record was created.
C26_StaleRecordDeleted ==
  /\ [](\A r \in Slots :
          (FoundStale(r) /\ Done(r))
            => /\ req[r].resp.status = 401
               /\ ~req[r].resp.setCookie
               /\ req[r].newRecord = NoRow)
  /\ [][\A r \in Slots :
          (FoundStale(r) /\ ~Done(r) /\ req'[r].pc = "done")
            => /\ req[r].refreshTokenRecord \in refreshTokens
               /\ refreshTokens' = refreshTokens \ {req[r].refreshTokenRecord}
               /\ ~(\E row \in refreshTokens' :
                      row.id = req[r].refreshTokenRecord.id)
               /\ nextId' = nextId]_vars

\* C26 witness: a refresh presented a well-signed, unexpired token whose
\* record had expired, was answered 401, and the record is gone.
C26_Witness ==
  \E r \in Slots :
    /\ FoundStale(r) /\ Done(r) /\ Latest(r)
    /\ req[r].refreshTokenRecord.token = req[r].cookie
    /\ req[r].refreshTokenRecord.expiresAt < req[r].checkedAt
    /\ req[r].resp.status = 401
    /\ req[r].refreshTokenRecord \in req[r].before.refreshTokens
    /\ req[r].refreshTokenRecord \notin refreshTokens

\* Request r returns in this step, with a success status.
ReturnsSuccess(r) ==
  /\ req[r].kind \in {"register", "login", "refresh"}
  /\ req[r].pc # "done" /\ req'[r].pc = "done"
  /\ req'[r].resp.status \in {200, 201}

\* C27: issuance consistency: whenever register, login or refresh returns
\* success, the refresh token set in the cookie embeds as tokenId the id of
\* a RefreshTokenRecord that exists at that moment, belongs to the returned
\* user, and stores exactly that token string (create record, sign token
\* with its id, patch record, in that order).
C27_IssuanceConsistency ==
  [][\A r \in Slots :
       ReturnsSuccess(r)
         => LET resp == req'[r].resp
                payload == verifyRefreshToken(resp.cookie, now')
            IN /\ resp.setCookie /\ resp.maxAge = COOKIE_MAX_AGE
               /\ payload # ABSENT
               /\ req[r].pc = "update"
               /\ req[r].newRecord.id = payload.tokenId
               /\ req[r].newRecord.token = EMPTY
               /\ req[r].newRecord \in refreshTokens
               /\ \E row \in refreshTokens' :
                    /\ row.id = payload.tokenId
                    /\ row.userId = resp.user.id
                    /\ row.userId = payload.userId
                    /\ row.token = resp.cookie
               /\ Cardinality({row \in refreshTokens' :
                                 row.id = payload.tokenId}) = 1]_vars

\* C27 witness: a register, a login and a refresh have each returned
\* success, two of them overlapping, and the cookie of each is the token
\* string of the record whose id it embeds.
C27_Witness ==
  /\ \A k \in {"register", "login", "refresh"} :
       \E r \in Slots :
         /\ req[r].kind = k /\ Done(r) /\ req[r].resp.status \in {200, 201}
         /\ req[r].resp.cookie.tokenId = req[r].newRecord.id
  /\ \E a, b \in Slots :
       /\ a # b /\ Overlap(a, b)
       /\ Done(a) /\ req[a].resp.status = 200
       /\ Done(b) /\ req[b].resp.status = 200

\* Refresh request r presented a token signed with the refresh secret that
\* was rejected because it had expired: by its own exp when it arrived, or
\* by its record's expiresAt when the record was read.
RejectedAsExpired(r) ==
  /\ req[r].kind = "refresh" /\ Done(r)
  /\ req[r].cookie.form = "jwt" /\ req[r].cookie.key = JWT_REFRESH_SECRET
  /\ req[r].resp.status = 401
  /\ \/ req[r].cookie.exp <= req[r].at
     \/ /\ req[r].refreshTokenRecord # NoRow
        /\ req[r].refreshTokenRecord.expiresAt < req[r].checkedAt

\* C28: expired tokens are cleaned up: whenever refresh rejects a presented,
\* correctly signed token because it has expired (by the token's own
\* embedded expiry or by the record's expiresAt), the RefreshTokenRecord
\* with that tokenId is absent from the Session Store after the call.
C28_ExpiredTokensCleanedUp ==
  \A r \in Slots :
    (RejectedAsExpired(r) /\ Latest(r))
      => ~(\E row \in refreshTokens : row.id = req[r].cookie.tokenId)

\* What register answers to (email, password) over the table `before`, by
\* the first check that fails in the order email format, password strength,
\* email uniqueness: status and reason.
FirstFailure(email, password, before) ==
  IF ~validateEmail(email)
    THEN <<400, "Invalid email format">>
    ELSE IF ~validatePassword(password).valid
      THEN <<400, validatePassword(password).error>>
      ELSE IF \E u \in before : u.email = toLowerCase(email)
        THEN <<409, "User with this email already exists">>
        ELSE <<201, "">>

\* Request r was refused.
Rejected(r) == Done(r) /\ req[r].resp.status \notin {200, 201}

\* C29: register checks in the order email format, password strength, email
\* uniqueness and reports the first failure (InvalidEmail 400, WeakPassword
\* 400, EmailTaken 409); every such rejected register, and every rejected
\* login, leaves the User table and the Session Store unchanged and sets no
\* cookie.
C29_RejectionsOrderedAndInert ==
  \A r \in Slots :
    /\ (req[r].kind = "register" /\ Done(r))
         => LET first == FirstFailure(req[r].email, req[r].password,
                                      req[r].before.users)
            IN /\ req[r].resp.status = first[1]
               /\ (Len(req[r].email) > 0 /\ Len(req[r].password) > 0)
                    => req[r].resp.error = first[2]
    /\ (req[r].kind \in {"register", "login"} /\ Rejected(r))
         => /\ ~req[r].resp.setCookie
            /\ req[r].resp.cookie = ABSENT
            /\ req[r].resp.accessToken = ABSENT
            /\ Latest(r) => /\ users = req[r].before.users
                            /\ refreshTokens = req[r].before.refreshTokens

\* C29 witness: with a user and a session in the tables, a register was
\* refused for a malformed email that came with a weak password, another
\* for a weak password that came with a taken email, and a login was
\* refused for a wrong password.
C29_Witness ==
  /\ users # {} /\ refreshTokens # {}
  /\ \E r \in Slots :
       /\ req[r].kind = "register" /\ Rejected(r)
       /\ req[r].email = notAnEmail /\ req[r].password = tooShort
       /\ req[r].resp.error = "Invalid email format"
  /\ \E r \in Slots :
       /\ req[r].kind = "register" /\ Rejected(r)
       /\ req[r].password = password1
       /\ \E u \in req[r].before.users : u.email = toLowerCase(req[r].email)
       /\ req[r].resp.status = 400
  /\ \E r \in Slots :
       /\ req[r].kind = "login" /\ Rejected(r) /\ Latest(r)
       /\ req[r].resp.status = 401
       /\ \E u \in users : u.email = req[r].email

\* The records of user u in table t.
RecordsOf(u, t) == {row \in t : row.userId = u}

\* C30: a successful refresh replaces exactly one record: the redeemed
\* record Ri is removed, exactly one new record Ri+1 with a fresh id and the
\* same owner is added, and all other records are unchanged, so the number
\* of RefreshTokenRecords per user is the same before and after.
C30_RefreshReplacesOneRecord ==
  \A r \in Journey :
    ( /\ req[r].kind = "refresh" /\ Done(r) /\ req[r].resp.status = 200
      /\ Latest(r) )
      => LET old == req[r].refreshTokenRecord
             before == req[r].before.refreshTokens
             added == refreshTokens \ before
         IN /\ old \in before
            /\ old.id = req[r].cookie.tokenId
            /\ before \ refreshTokens = {old}
            /\ Cardinality(added) = 1
            /\ \A new \in added :
                 /\ new.userId = old.userId
                 /\ new.id = req[r].resp.cookie.tokenId
                 /\ new.id # old.id
                 /\ ~(\E row \in before : row.id = new.id)
                 /\ \A q \in Journey : q < r => req[q].newRecord.id # new.id
            /\ \A u \in {row.userId : row \in before \cup refreshTokens} :
                 Cardinality(RecordsOf(u, refreshTokens))
                   = Cardinality(RecordsOf(u, before))

\* C30 witness: a refresh has succeeded while its user held a second
\* session, which is untouched.
C30_Witness ==
  \E r \in Journey :
    /\ req[r].kind = "refresh" /\ Done(r) /\ req[r].resp.status = 200
    /\ Latest(r)
    /\ Cardinality(req[r].before.refreshTokens) = 2
    /\ Cardinality(refreshTokens) = 2
    /\ Cardinality(refreshTokens \cap req[r].before.refreshTokens) = 1

\* Request r issues tokens: it is a register, a login or a refresh.
Issues(r) == req[r].kind \in {"register", "login", "refresh"}

\* Requests a and b are for different sessions: they are not two
\* redemptions of the same refresh cookie.
DifferentSessions(a, b) ==
  ~(req[a].kind = "refresh" /\ req[b].kind = "refresh"
      /\ req[a].cookie = req[b].cookie)

\* Requests a and b overlapped with each other and with no other request.
OverlapAlone(a, b) ==
  /\ Overlap(a, b)
  /\ \A c \in Slots \ {a, b} : ~Overlap(a, c) /\ ~Overlap(b, c)

\* C31: token issuances that overlap in time do not interfere: when two
\* register/login/refresh calls for different sessions interleave their
\* create-record, sign, patch-record steps, with the token column unique and
\* each record created with the empty placeholder token, both calls succeed
\* and neither ends in 500.
C31_OverlappingIssuancesSucceed ==
  \A a, b \in Slots :
    ( /\ a # b /\ Issues(a) /\ Issues(b) /\ Done(a) /\ Done(b)
      /\ DifferentSessions(a, b) /\ OverlapAlone(a, b) )
      => /\ req[a].resp.status # 500
         /\ req[b].resp.status # 500

\* C32: no placeholder record outlives its issuance: in every state where
\* no register, login or refresh call is in progress, including after a call
\* that failed between creating the record and patching it, no
\* RefreshTokenRecord holds the empty placeholder token string.
C32_NoPlaceholderOutlivesIssuance ==
  (\A r \in Slots : Issues(r) => Done(r))
    => ~(\E row \in refreshTokens : row.token = EMPTY)

\* C33: overlapping client refreshes keep the session: when refresh calls
\* overlap, then after all responses have been processed in any order, the
\* client is authenticated whenever the browser's refresh cookie still names
\* a redeemable record; no client is left logged out while a valid session
\* exists.
C33_OverlappingRefreshesKeepSession ==
  ( /\ Awaited = {} /\ ~client.isLoading
    /\ \E a, b \in Fetches :
         /\ a # b /\ Overlap(a, b)
         /\ req[a].kind = "refresh" /\ req[b].kind = "refresh"
    /\ ValidRefreshToken(client.cookie, refreshTokens, now, now) )
  => client.user # NoUser /\ client.accessToken # ABSENT

\* C34: client state coherence: in every client state reached after any
\* sequence of mount, login, register, refresh and logout actions has
\* settled, user is null if and only if accessToken is null, and
\* isAuthenticated equals (user is not null).
C34_ClientStateCoherent ==
  /\ client.user = NoUser <=> client.accessToken = ABSENT
  /\ isAuthenticated(client) <=> client.user # NoUser
  /\ isAuthenticated(client) =>
       /\ client.accessToken.form = "jwt"
       /\ client.accessToken.userId = client.user.id

\* C34 witness: the tab has logged out and logged in again and holds both a
\* user and an access token.
C34_Witness ==
  /\ isAuthenticated(client) /\ client.accessToken # ABSENT
  /\ Awaited = {}
  /\ \E r, q \in Fetches :
       /\ r < q
       /\ req[r].kind = "logout" /\ r \in client.received
       /\ req[q].kind = "login" /\ q \in client.received
       /\ req[q].resp.status = 200

\* Refresh request r has returned success.
Refreshed(r) ==
  req[r].kind = "refresh" /\ Done(r) /\ req[r].resp.status = 200

\* The user the cookie c was issued to: the user of the register or login
\* response that set it, or of the refresh chain that leads back to one.
IssuedTo(c) ==
  {req[q].resp.user.id : q \in {p \in Slots : req[p].resp.cookie = c}}

\* C35: refresh never changes identity: the access token, the new refresh
\* token, the new record and the user view returned by a successful refresh
\* all carry the userId that owns the redeemed record; no sequence of
\* operations lets a token issued to user A yield tokens for a different
\* user B.
C35_RefreshKeepsIdentity ==
  \A r \in Slots :
    Refreshed(r)
      => LET owner == req[r].refreshTokenRecord.userId
         IN /\ owner # 0
            /\ req[r].resp.accessToken.userId = owner
            /\ req[r].resp.cookie.userId = owner
            /\ req[r].newRecord.userId = owner
            /\ req[r].resp.user.id = owner
            /\ \E u \in users :
                 /\ u.id = owner
                 /\ u.email = req[r].resp.user.email
                 /\ u.email = req[r].resp.accessToken.email
            /\ req[r].cookie.userId = owner
            /\ IssuedTo(req[r].cookie) = {owner}

\* C35 witness: two users exist and each has redeemed a cookie of their own;
\* the two responses carry different users.
C35_Witness ==
  \E r, q \in Slots :
    /\ Refreshed(r) /\ Refreshed(q)
    /\ req[r].resp.user.id # req[q].resp.user.id
    /\ req[r].resp.accessToken.userId = req[r].cookie.userId
    /\ req[q].resp.accessToken.userId = req[q].cookie.userId

\* Login request r has returned success.
LoggedIn(r) == req[r].kind = "login" /\ Done(r) /\ req[r].resp.status = 200

\* C36: login adds a session without revoking others: a successful login
\* creates exactly one new RefreshTokenRecord and leaves every existing
\* record, including the same user's older sessions, unchanged and still
\* redeemable.
C36_LoginAddsSession ==
  \A r \in Journey :
    /\ (LoggedIn(r) /\ Latest(r))
         => LET before == req[r].before.refreshTokens
            IN /\ before \subseteq refreshTokens
               /\ Cardinality(refreshTokens \ before) = 1
               /\ \A new \in refreshTokens \ before :
                    /\ new.userId = req[r].resp.user.id
                    /\ new.token = req[r].resp.cookie
                    /\ ~(\E row \in before : row.id = new.id)
               /\ users = req[r].before.users
               /\ \A c \in IssuedCookies :
                    ValidRefreshToken(c, before, req[r].at, req[r].at)
                      => ValidRefreshToken(c, refreshTokens, now, now)
    /\ LoggedIn(r)
         => \A f \in Journey :
              ( /\ f > r /\ req[f].kind = "refresh" /\ Done(f)
                /\ ValidRefreshToken(req[f].cookie,
                                     req[r].before.refreshTokens,
                                     req[r].at, req[f].at)
                /\ \A q \in Journey :
                     (r < q /\ q < f) => req[q].cookie # req[f].cookie )
              => req[f].resp.status = 200

\* C36 witness: a user with a session has logged in again, and the cookie
\* of the older session was redeemed afterwards.
C36_Witness ==
  \E r, f \in Journey :
    /\ LoggedIn(r) /\ f > r
    /\ req[r].before.refreshTokens # {}
    /\ \E row \in req[r].before.refreshTokens :
         row.userId = req[r].resp.user.id
    /\ Refreshed(f)
    /\ ValidRefreshToken(req[f].cookie, req[r].before.refreshTokens,
                         req[r].at, req[f].at)

\* C37: concurrent registration: when two register calls with emails equal
\* up to letter case run concurrently, in every interleaving of their
\* uniqueness check and user creation exactly one User is created, exactly
\* one call returns 201, and the other fails with EmailTaken (409).
C37_ConcurrentRegistration ==
  \A a, b \in Slots :
    ( /\ a # b /\ OverlapAlone(a, b)
      /\ req[a].kind = "register" /\ req[b].kind = "register"
      /\ Done(a) /\ Done(b)
      /\ toLowerCase(req[a].email) = toLowerCase(req[b].email)
      /\ req[a].before.users = {} )
    => /\ Cardinality({u \in users : u.email = toLowerCase(req[a].email)}) = 1
       /\ {req[a].resp.status, req[b].resp.status} = {201, 409}

====
